---- MODULE Spec2Model ----
(***************************************************************************)
(* A model of the Salesforce MCP server (src/src/salesforce/server.py):    *)
(* the SalesforceClient with its field-metadata cache, and the tool        *)
(* dispatcher handle_call_tool, one action per tool.  The Salesforce org   *)
(* behind the adapter is the environment: every adapter operation either   *)
(* raises or returns one of a few payloads, and the describe payload of an *)
(* object may change between invocations.                                  *)
(***************************************************************************)
EXTENDS Integers, Sequences, FiniteSets, TLC

VARIABLES
  pc,              \* "startup" before sf_client.connect() has run, then "idle" between
                   \* invocations and "responding" when one has just ended
  sf,              \* SalesforceClient.sf: "None" or "Salesforce"
  sobjects_cache,  \* SalesforceClient.sobjects_cache: object name -> filtered fields
  remote,          \* the org: object name -> index of its current describe payload
  call,            \* the last tool invocation: [name, arguments]
  outcome,         \* how it ended: [kind, exc, text]
  ops,             \* the adapter operations it performed, in order
  written,         \* the lines its csv writer wrote, in order
  described,       \* history: describe round trips of get_object_fields that succeeded
  first_result,    \* history: the text of the first successful get_object_fields per name
  connect_result,  \* what sf_client.connect() returned at startup: "unset", "True", "False"
  listing,         \* the descriptors handle_list_tools has just returned, in order
  tasks            \* requests the transport has received and whose handler has not run

vars == <<pc, sf, sobjects_cache, remote, call, outcome, ops, written, described, first_result,
          connect_result, listing, tasks>>

-----------------------------------------------------------------------------
(* Python values.  Every value carries its type, so that the untyped       *)
(* argument mapping of a tool call can hold strings, objects and lists.    *)

None == [t |-> "none", v |-> <<>>]
Str(s) == [t |-> "str", v |-> s]
Num(n) == [t |-> "int", v |-> n]
Bool(b) == [t |-> "bool", v |-> b]
List(s) == [t |-> "list", v |-> s]
\* a dict is the sequence of its <<key, value>> pairs, in insertion order
Dict(s) == [t |-> "dict", v |-> s]

\* bool(x): what `not x` and `if x` test
Truthy(x) ==
  CASE x.t = "none" -> FALSE
    [] x.t = "str" -> x.v # ""
    [] x.t = "int" -> x.v # 0
    [] x.t = "bool" -> x.v
    [] x.t = "list" -> x.v # <<>>
    [] x.t = "dict" -> x.v # <<>>

\* isinstance(x, list), isinstance(x, dict), isinstance(x, str)
IsList(x) == x.t = "list"
IsDict(x) == x.t = "dict"
IsStr(x) == x.t = "str"

\* key in d, d[key] and d.get(key, default) of a dict value
HasKey(d, k) == \E i \in 1..Len(d.v) : d.v[i][1] = k
Item(d, k) == d.v[CHOOSE i \in 1..Len(d.v) : d.v[i][1] = k][2]
DictGet(d, k, default) == IF HasKey(d, k) THEN Item(d, k) ELSE default

\* the argument mapping of a call is a function from the names given to values
ArgGet(arguments, k) == IF k \in DOMAIN arguments THEN arguments[k] ELSE None
\* arguments.get(k) where the default was meant
ArgGetNoDefault(arguments, k, default) == ArgGet(arguments, k)

\* arguments.get(k, default)
ArgGetDefault(arguments, k, default) ==
  IF k \in DOMAIN arguments THEN arguments[k] ELSE default

-----------------------------------------------------------------------------
(* Strings.                                                                *)

UpperChars == "ABCDEFGHIJKLMNOPQRSTUVWXYZ"
LowerChars == "abcdefghijklmnopqrstuvwxyz"

LowerChar(c) ==
  IF \E i \in 1..Len(UpperChars) : SubSeq(UpperChars, i, i) = c
  THEN LET i == CHOOSE j \in 1..Len(UpperChars) : SubSeq(UpperChars, j, j) = c
       IN SubSeq(LowerChars, i, i)
  ELSE c

\* str.lower()
RECURSIVE Lower(_)
Lower(s) == IF s = "" THEN "" ELSE LowerChar(SubSeq(s, 1, 1)) \o Lower(SubSeq(s, 2, Len(s)))

\* a in b, for strings
Contains(b, a) ==
  \E i \in 1..(Len(b) - Len(a) + 1) : SubSeq(b, i, i + Len(a) - 1) = a

\* a slice that keeps the whole text
PrefixWhole(s, n) == s

\* s[:n]
Prefix(s, n) == SubSeq(s, 1, IF Len(s) < n THEN Len(s) ELSE n)

\* str(x) as an f-string renders it
PyStr(x) ==
  CASE x.t = "none" -> "None"
    [] x.t = "str" -> x.v
    [] x.t = "int" -> ToString(x.v)
    [] x.t = "bool" -> IF x.v THEN "True" ELSE "False"

\* json.dumps of a string: quoted, with the quote and the backslash escaped
RECURSIVE Escaped(_)
Escaped(s) ==
  IF s = "" THEN ""
  ELSE IF Len(s) = 1
  THEN (IF s = "\"" THEN "\\\"" ELSE IF s = "\\" THEN "\\\\" ELSE IF s = "\n" THEN "\\n" ELSE s)
  ELSE LET half == Len(s) \div 2
       IN Escaped(SubSeq(s, 1, half)) \o Escaped(SubSeq(s, half + 1, Len(s)))

RECURSIVE Spaces(_)
Spaces(n) == IF n = 0 THEN "" ELSE " " \o Spaces(n - 1)

\* json.dumps(x, indent=2) at nesting depth d
RECURSIVE DumpsAt(_, _)
RECURSIVE DumpItems(_, _, _, _)
DumpItems(t, s, i, d) ==
  IF i > Len(s) THEN ""
  ELSE Spaces(2 * d)
       \o (IF t = "dict" THEN "\"" \o Escaped(s[i][1]) \o "\": " \o DumpsAt(s[i][2], d)
           ELSE DumpsAt(s[i], d))
       \o (IF i < Len(s) THEN ",\n" ELSE "\n")
       \o DumpItems(t, s, i + 1, d)
DumpsAt(x, d) ==
  CASE x.t = "none" -> "null"
    [] x.t = "str" -> "\"" \o Escaped(x.v) \o "\""
    [] x.t = "int" -> ToString(x.v)
    [] x.t = "bool" -> IF x.v THEN "true" ELSE "false"
    [] x.t = "list" ->
         IF x.v = <<>> THEN "[]"
         ELSE "[\n" \o DumpItems("list", x.v, 1, d + 1) \o Spaces(2 * d) \o "]"
    [] x.t = "dict" ->
         IF x.v = <<>> THEN "{}"
         ELSE "{\n" \o DumpItems("dict", x.v, 1, d + 1) \o Spaces(2 * d) \o "}"

Dumps(x) == DumpsAt(x, 0)

-----------------------------------------------------------------------------
(* The org behind the adapter.                                             *)

\* one field of a describe payload, with the attributes the server reads
RawField(name, label, type, length, updateable, nillable) ==
  [ label |-> Str(label), name |-> Str(name), updateable |-> Bool(updateable),
    type |-> Str(type), length |-> Num(length), picklistValues |-> List(<<>>),
    nillable |-> Bool(nillable), unique |-> Bool(FALSE), externalId |-> Bool(FALSE),
    createable |-> Bool(updateable), custom |-> Bool(FALSE), calculated |-> Bool(FALSE),
    defaultedOnCreate |-> Bool(FALSE), dependentPicklist |-> Bool(FALSE),
    referenceTo |-> List(<<>>), relationshipName |-> None,
    filterable |-> Bool(TRUE), sortable |-> Bool(TRUE) ]

DescribeSmall ==
  [ createable |-> Bool(TRUE), deletable |-> Bool(TRUE), queryable |-> Bool(TRUE),
    updateable |-> Bool(TRUE), retrieveable |-> Bool(TRUE),
    fields |-> << RawField("Id", "Account ID", "id", 18, FALSE, FALSE),
                  RawField("Name", "Account Name", "string", 255, TRUE, FALSE),
                  RawField("Phone", "Phone", "phone", 40, TRUE, TRUE) >> ]

\* the same object after an administrator changed its schema: thirteen field
\* names hold "name" in either letter case, and two differ in case alone
DescribeWide ==
  [ createable |-> Bool(FALSE), deletable |-> Bool(FALSE), queryable |-> Bool(TRUE),
    updateable |-> Bool(FALSE), retrieveable |-> Bool(TRUE),
    fields |-> << RawField("Id", "ID", "id", 18, FALSE, FALSE),
                  RawField("FirstName", "First", "string", 40, TRUE, TRUE),
                  RawField("LASTNAME", "Last", "string", 80, TRUE, FALSE),
                  RawField("Phone", "Phone", "phone", 40, TRUE, TRUE),
                  RawField("nameSuffix", "Suffix", "string", 40, TRUE, TRUE),
                  RawField("MiddleName", "Middle", "string", 40, TRUE, TRUE),
                  RawField("Nickname__c", "Nick", "string", 40, TRUE, TRUE),
                  RawField("Username", "User", "string", 80, TRUE, TRUE),
                  RawField("CompanyName", "Company", "string", 80, TRUE, TRUE),
                  RawField("NamePrefix", "Prefix", "string", 40, TRUE, TRUE),
                  RawField("AliasNAME", "Alias", "string", 8, TRUE, TRUE),
                  RawField("DisplayName", "Display", "string", 80, TRUE, TRUE),
                  RawField("Rename__c", "Rename", "string", 80, TRUE, TRUE),
                  RawField("FIRSTNAME", "Shadow", "string", 10, FALSE, TRUE),
                  RawField("FullName", "Full", "string", 121, FALSE, TRUE) >> ]

Describes == << DescribeSmall, DescribeWide >>

\* the object names a caller asks for; the org resolves them ignoring case
ObjectNames == {"Account", "account"}
RemoteObjects == {"account"}

\* what an adapter operation answers: it raises, or it returns a value
Raises(message) == [raises |-> TRUE, value |-> Str(message)]
Returns(value) == [raises |-> FALSE, value |-> value]

RemoteError == Raises("Malformed request")

\* a describe payload whose second field lacks attributes the filter reads
DescribeBroken ==
  [ fields |-> << RawField("Id", "Account ID", "id", 18, FALSE, FALSE),
                  [label |-> Str("Account Name"), name |-> Str("Name")] >> ]

\* the answers of sf_object.describe() in the current state of the org
DescribeReplies(object_name) == {RemoteError, Returns(Describes[remote[Lower(object_name)]])}

\* one adapter operation as the invocation performed it
Op(name, obj, args, kw, reply) ==
  [op |-> name, obj |-> obj, args |-> args, kw |-> kw, raised |-> reply.raises,
   result |-> reply.value]

\* how an invocation ends, with the adapter operations it performed
Raised(exc, message, done) == [kind |-> "raise", exc |-> exc, text |-> message, ops |-> done]
Returned(text, done) == [kind |-> "return", exc |-> "", text |-> text, ops |-> done]

ConnectionError(done) == Raised("ValueError", "Salesforce connection not established.", done)
\* an attribute of sf_client.sf is read while sf is None
NoneTypeError(attr, done) ==
  Raised("AttributeError", "'NoneType' object has no attribute '" \o attr \o "'", done)
\* the error of the adapter is answered as a text instead
PropagatedAsText(reply, done) == Returned("Error: " \o reply.value.v, done)

\* an adapter operation raised and nothing caught it
Propagated(reply, done) == Raised("SalesforceError", reply.value.v, done)

-----------------------------------------------------------------------------
(* SalesforceClient.                                                       *)

\* a filter that also keeps whether the field is nillable
FilteredFieldWithNillable(field) ==
  Dict(<< <<"label", field["label"]>>, <<"name", field["name"]>>,
          <<"updateable", field["updateable"]>>, <<"type", field["type"]>>,
          <<"length", field["length"]>>, <<"picklistValues", field["picklistValues"]>>,
          <<"nillable", field["nillable"]>> >>)

\* the six attributes get_object_fields keeps of a field
FilteredField(field) ==
  Dict(<< <<"label", field["label"]>>, <<"name", field["name"]>>,
          <<"updateable", field["updateable"]>>, <<"type", field["type"]>>,
          <<"length", field["length"]>>, <<"picklistValues", field["picklistValues"]>> >>)

FilteredFields(fields) == [i \in 1..Len(fields) |-> FilteredField(fields[i])]

\* a lookup that never finds the entry
CacheMissAlways(cache, object_name) == TRUE

\* the test as it would come out if the handler yielded during the describe
\* round trip: stale whenever other requests are waiting
CacheMissWhilePending(cache, object_name) ==
  object_name \notin DOMAIN cache \/ tasks # <<>>

\* object_name not in self.sobjects_cache
CacheMiss(cache, object_name) == object_name \notin DOMAIN cache

\* a store that drops the other entries
CacheStoreReset(cache, object_name, filtered_fields) ==
  [o \in {object_name} |-> filtered_fields]

\* a store that also enters the fields under the name in lower case
CacheStoreFolded(cache, object_name, filtered_fields) ==
  [o \in DOMAIN cache \cup {object_name, Lower(object_name)} |->
     IF o \in {object_name, Lower(object_name)} THEN filtered_fields ELSE cache[o]]

\* self.sobjects_cache[object_name] = filtered_fields
CacheStore(cache, object_name, filtered_fields) ==
  [o \in DOMAIN cache \cup {object_name} |->
     IF o = object_name THEN filtered_fields ELSE cache[o]]

\* a cache that folds the letter case of its keys
CacheKeyLowered(object_name) == Lower(object_name)

\* the key of an object in sobjects_cache: the name as the caller gave it
CacheKey(object_name) == object_name

\* the first attribute the filter reads that a field of the payload lacks,
\* the key of the KeyError the dict display raises; "" when none is lacking
MissingAttribute(fields) ==
  LET order == <<"label", "name", "updateable", "type", "length", "picklistValues">>
      lacking(field) == {k \in 1..Len(order) : order[k] \notin DOMAIN field}
      broken == {i \in 1..Len(fields) : lacking(fields[i]) # {}}
  IN IF broken = {} THEN ""
     ELSE LET i == CHOOSE x \in broken : \A y \in broken : x <= y
              k == CHOOSE x \in lacking(fields[i]) : \A y \in lacking(fields[i]) : x <= y
          IN order[k]

\* a client that enters the name in the cache before the describe round trip
ClientGetObjectFieldsEager(cache, connected, object_name, reply) ==
  LET key == CacheKey(object_name) IN
  IF ~connected THEN [res |-> ConnectionError(<<>>), cache |-> cache]
  ELSE IF CacheMiss(cache, key)
  THEN LET done == <<Op("describe", object_name, <<>>, <<>>, reply)>> IN
       IF reply.raises
       THEN [res |-> Propagated(reply, done), cache |-> CacheStore(cache, key, <<>>)]
       ELSE IF MissingAttribute(reply.value["fields"]) # ""
       THEN [res |-> Raised("KeyError", "'" \o MissingAttribute(reply.value["fields"]) \o "'", done),
             cache |-> CacheStore(cache, key, <<>>)]
       ELSE LET stored == CacheStore(cache, key, FilteredFields(reply.value["fields"])) IN
            [res |-> Returned(Dumps(List(stored[key])), done), cache |-> stored]
  ELSE [res |-> Returned(Dumps(List(cache[key])), <<>>), cache |-> cache]

\* SalesforceClient.get_object_fields: the result, with the cache it leaves
ClientGetObjectFields(cache, connected, object_name, reply) ==
  LET key == CacheKey(object_name) IN
  IF ~connected THEN [res |-> ConnectionError(<<>>), cache |-> cache]
  ELSE IF CacheMiss(cache, key)
  THEN LET done == <<Op("describe", object_name, <<>>, <<>>, reply)>> IN
       IF reply.raises THEN [res |-> Propagated(reply, done), cache |-> cache]
       ELSE IF MissingAttribute(reply.value["fields"]) # ""
       THEN \* the KeyError leaves the loop before line 83 stores anything
            [res |-> Raised("KeyError", "'" \o MissingAttribute(reply.value["fields"]) \o "'", done),
             cache |-> cache]
       ELSE LET stored == CacheStore(cache, key, FilteredFields(reply.value["fields"])) IN
            [res |-> Returned(Dumps(List(stored[key])), done), cache |-> stored]
  ELSE [res |-> Returned(Dumps(List(cache[key])), <<>>), cache |-> cache]

\* the sixteen attributes get_field_details reports of the field it found
FieldDetails(field) ==
  Dict(<< <<"name", field["name"]>>, <<"label", field["label"]>>,
          <<"type", field["type"]>>, <<"length", field["length"]>>,
          <<"required", Bool(~field["nillable"].v)>>, <<"unique", field["unique"]>>,
          <<"external_id", field["externalId"]>>, <<"updateable", field["updateable"]>>,
          <<"createable", field["createable"]>>, <<"custom", field["custom"]>>,
          <<"calculated", field["calculated"]>>,
          <<"defaulted_on_create", field["defaultedOnCreate"]>>,
          <<"dependency_following", field["dependentPicklist"]>>,
          <<"picklist_values", field["picklistValues"]>>,
          <<"referenced_to", field["referenceTo"]>>,
          <<"relationship_name", field["relationshipName"]>> >>)

\* a comparison that minds the letter case
NameMatchesExact(field, field_name) == field["name"].v = field_name

\* field['name'].lower() == field_name.lower()
NameMatches(field, field_name) == Lower(field["name"].v) = Lower(field_name)

\* the positions of the fields the scan of get_field_details accepts
MatchingPositions(fields, field_name) ==
  {i \in 1..Len(fields) : NameMatches(fields[i], field_name)}

\* the loop with its break: the first field accepted, 0 when there is none
FoundPosition(fields, field_name) ==
  IF MatchingPositions(fields, field_name) = {} THEN 0
  ELSE CHOOSE i \in MatchingPositions(fields, field_name) :
         \A j \in MatchingPositions(fields, field_name) : i <= j

\* field_name.lower() in f['name'].lower()
IsSimilar(field, field_name) == Contains(Lower(field["name"].v), Lower(field_name))

\* [f['name'] for f in fields if ...]: the names kept, in the order of the fields
RECURSIVE SimilarFrom(_, _, _)
SimilarFrom(fields, field_name, i) ==
  IF i > Len(fields) THEN <<>>
  ELSE (IF IsSimilar(fields[i], field_name) THEN <<fields[i]["name"]>> ELSE <<>>)
       \o SimilarFrom(fields, field_name, i + 1)

MatchingFields(fields, field_name) == SimilarFrom(fields, field_name, 1)

SimilarLimit == 10

\* the list without its cut
SimilarFieldsAll(fields, field_name) == MatchingFields(fields, field_name)

\* matching_fields[:10]
SimilarFields(fields, field_name) ==
  LET all == MatchingFields(fields, field_name)
  IN SubSeq(all, 1, IF Len(all) < SimilarLimit THEN Len(all) ELSE SimilarLimit)

\* the payload of a lookup that found no field
MissPayload(object_name, field_name, fields) ==
  Dict(<< <<"error", Str("Field '" \o field_name \o "' not found in object '"
                          \o object_name \o "'")>>,
          <<"similar_fields", List(SimilarFields(fields, field_name))>> >>)

\* SalesforceClient.get_field_details
ClientGetFieldDetails(connected, object_name, field_name, reply) ==
  IF ~connected THEN ConnectionError(<<>>)
  ELSE LET done == <<Op("describe", object_name, <<>>, <<>>, reply)>> IN
       IF reply.raises
       THEN Returned(Dumps(Dict(<< <<"error", Str("Failed to get field details: "
                                                   \o reply.value.v)>> >>)), done)
       ELSE LET fields == reply.value["fields"]
                at == FoundPosition(fields, field_name)
            IN IF at = 0
               THEN Returned(Dumps(MissPayload(object_name, field_name, fields)), done)
               ELSE Returned(Dumps(FieldDetails(fields[at])), done)

-----------------------------------------------------------------------------
(* The arguments and the adapter answers the model draws from.             *)

EmptyFunction == [x \in {} |-> x]

\* every mapping that gives each key of keys one of the values vals[key]
RECURSIVE Maps(_, _)
Maps(keys, vals) ==
  IF keys = {} THEN {EmptyFunction}
  ELSE LET k == CHOOSE x \in keys : TRUE
       IN {(k :> v) @@ f : v \in vals[k], f \in Maps(keys \ {k}, vals)}

\* how a required argument can be missing: not given, or given empty
MissingKinds == {"absent", "string", "object", "list"}
EmptyValue(kind) ==
  CASE kind = "string" -> Str("") [] kind = "object" -> Dict(<<>>) [] kind = "list" -> List(<<>>)

\* how many required arguments of one call are missing, at most
MaxMissing == 1

\* The argument mappings of a tool: at most MaxMissing of its required arguments
\* missing, all in the same way, the others well-formed; any of its optional
\* ones given.
ArgumentSets(required, optional) ==
  UNION { UNION { Maps((DOMAIN required \ (IF kind = "absent" THEN missing ELSE {})) \cup given,
                       [k \in DOMAIN required \cup DOMAIN optional |->
                          IF k \in missing THEN {EmptyValue(kind)}
                          ELSE IF k \in DOMAIN required THEN required[k] ELSE optional[k]])
                  : given \in SUBSET DOMAIN optional }
          : <<missing, kind>> \in {m \in SUBSET DOMAIN required : Cardinality(m) <= MaxMissing}
                                  \X MissingKinds }

Record(id, name) ==
  Dict(<< <<"attributes", Dict(<< <<"type", Str("Account")>> >>)>>,
          <<"Id", Str(id)>>, <<"Name", Str(name)>> >>)

\* a text of n characters
RECURSIVE Padding(_)
Padding(n) ==
  IF n = 0 THEN ""
  ELSE LET half == Padding(n \div 2) IN half \o half \o (IF n % 2 = 1 THEN "x" ELSE "")

Envelope(records) ==
  Dict(<< <<"totalSize", Num(Len(records))>>, <<"done", Bool(TRUE)>>,
          <<"records", List(records)>> >>)

-----------------------------------------------------------------------------
(* handle_call_tool, branch by branch.  Each operator is one branch: the   *)
(* result of the invocation for the given arguments, connection state and  *)
(* adapter answers.                                                        *)

\* a text that shows the records without their envelope
SoqlTextRecords(results) ==
  "SOQL Query Results (JSON):\n" \o Dumps(DictGet(results, "records", List(<<>>)))

\* f"SOQL Query Results (JSON):\n{json.dumps(results, indent=2)}"
SoqlText(results) == "SOQL Query Results (JSON):\n" \o Dumps(results)

run_soql_query(arguments, connected, reply) ==
  LET query == ArgGet(arguments, "query") IN
  IF ~Truthy(query) THEN Raised("ValueError", "Missing 'query' argument", <<>>)
  ELSE IF ~connected THEN NoneTypeError("query_all", <<>>)
  ELSE LET done == <<Op("query_all", "", <<query>>, <<>>, reply)>> IN
       IF reply.raises THEN Propagated(reply, done)
       ELSE Returned(SoqlText(reply.value), done)

run_sosl_search(arguments, connected, reply) ==
  LET search == ArgGet(arguments, "search") IN
  IF ~Truthy(search) THEN Raised("ValueError", "Missing 'search' argument", <<>>)
  ELSE IF ~connected THEN NoneTypeError("search", <<>>)
  ELSE LET done == <<Op("search", "", <<search>>, <<>>, reply)>> IN
       IF reply.raises THEN Propagated(reply, done)
       ELSE Returned("SOSL Search Results (JSON):\n" \o Dumps(reply.value), done)

\* the branch of get_object_fields: the result, with the cache it leaves
\* the branch with its two checks in the other order
get_object_fields_connection_first(arguments, connected, cache, reply) ==
  LET object_name == ArgGet(arguments, "object_name") IN
  IF ~connected THEN [res |-> ConnectionError(<<>>), cache |-> cache]
  ELSE IF ~Truthy(object_name)
  THEN [res |-> Raised("ValueError", "Missing 'object_name' argument", <<>>), cache |-> cache]
  ELSE LET got == ClientGetObjectFields(cache, connected, object_name.v, reply) IN
       IF got.res.kind = "raise" THEN got
       ELSE [res |-> Returned(object_name.v \o " Metadata (JSON):\n" \o got.res.text,
                              got.res.ops),
             cache |-> got.cache]

get_object_fields(arguments, connected, cache, reply) ==
  LET object_name == ArgGet(arguments, "object_name") IN
  IF ~Truthy(object_name)
  THEN [res |-> Raised("ValueError", "Missing 'object_name' argument", <<>>), cache |-> cache]
  ELSE IF ~connected THEN [res |-> ConnectionError(<<>>), cache |-> cache]
  ELSE LET got == ClientGetObjectFields(cache, connected, object_name.v, reply) IN
       IF got.res.kind = "raise" THEN got
       ELSE [res |-> Returned(object_name.v \o " Metadata (JSON):\n" \o got.res.text,
                              got.res.ops),
             cache |-> got.cache]

get_record(arguments, connected, reply) ==
  LET object_name == ArgGet(arguments, "object_name")
      record_id == ArgGet(arguments, "record_id") IN
  IF ~Truthy(object_name) \/ ~Truthy(record_id)
  THEN Raised("ValueError", "Missing 'object_name' or 'record_id' argument", <<>>)
  ELSE IF ~connected THEN ConnectionError(<<>>)
  ELSE LET done == <<Op("get", object_name.v, <<record_id>>, <<>>, reply)>> IN
       IF reply.raises THEN Propagated(reply, done)
       ELSE Returned(object_name.v \o " Record (JSON):\n" \o Dumps(reply.value), done)

create_record(arguments, connected, reply) ==
  LET object_name == ArgGet(arguments, "object_name")
      data == ArgGet(arguments, "data") IN
  IF ~Truthy(object_name) \/ ~Truthy(data)
  THEN Raised("ValueError", "Missing 'object_name' or 'data' argument", <<>>)
  ELSE IF ~connected THEN ConnectionError(<<>>)
  ELSE LET done == <<Op("create", object_name.v, <<data>>, <<>>, reply)>> IN
       IF reply.raises THEN Propagated(reply, done)
       ELSE Returned("Create " \o object_name.v \o " Record Result (JSON):\n"
                     \o Dumps(reply.value), done)

\* sf_object.update(record_id, data)
UpdateOp(object_name, record_id, data, reply) ==
  Op("update", object_name, <<record_id, data>>, <<>>, reply)

\* a text that wraps the status as the JSON results of the other tools are
UpdateTextJson(object_name, results) ==
  "Update " \o object_name \o " Record Result (JSON):\n" \o Dumps(results)

\* f"Update {object_name} Record Result: {results}"
UpdateText(object_name, results) ==
  "Update " \o object_name \o " Record Result: " \o PyStr(results)

\* a check that forgets data
UpdateArgumentMissingNoData(object_name, record_id, data) ==
  ~Truthy(object_name) \/ ~Truthy(record_id)

\* not object_name or not record_id or not data
UpdateArgumentMissing(object_name, record_id, data) ==
  ~Truthy(object_name) \/ ~Truthy(record_id) \/ ~Truthy(data)

update_record(arguments, connected, reply) ==
  LET object_name == ArgGet(arguments, "object_name")
      record_id == ArgGet(arguments, "record_id")
      data == ArgGet(arguments, "data") IN
  IF UpdateArgumentMissing(object_name, record_id, data)
  THEN Raised("ValueError", "Missing 'object_name', 'record_id', or 'data' argument", <<>>)
  ELSE IF ~connected THEN ConnectionError(<<>>)
  ELSE LET done == <<UpdateOp(object_name.v, record_id, data, reply)>> IN
       IF reply.raises THEN Propagated(reply, done)
       ELSE Returned(UpdateText(object_name.v, reply.value), done)

\* f"Delete {object_name} Record Result: {results}"
DeleteText(object_name, results) ==
  "Delete " \o object_name \o " Record Result: " \o PyStr(results)

delete_record(arguments, connected, reply) ==
  LET object_name == ArgGet(arguments, "object_name")
      record_id == ArgGet(arguments, "record_id") IN
  IF ~Truthy(object_name) \/ ~Truthy(record_id)
  THEN Raised("ValueError", "Missing 'object_name' or 'record_id' argument", <<>>)
  ELSE IF ~connected THEN ConnectionError(<<>>)
  ELSE LET done == <<Op("delete", object_name.v, <<record_id>>, <<>>, reply)>> IN
       IF reply.raises THEN Propagated(reply, done)
       ELSE Returned(DeleteText(object_name.v, reply.value), done)

\* sf.toolingexecute(action, method=method, data=data)
ToolingOp(action, method, data, reply) ==
  Op("toolingexecute", "", <<action>>, << <<"method", method>>, <<"data", data>> >>, reply)

tooling_execute(arguments, connected, reply) ==
  LET action == ArgGet(arguments, "action")
      method == ArgGetDefault(arguments, "method", Str("GET"))
      data == ArgGet(arguments, "data") IN
  IF ~Truthy(action) THEN Raised("ValueError", "Missing 'action' argument", <<>>)
  ELSE IF ~connected THEN ConnectionError(<<>>)
  ELSE LET done == <<ToolingOp(action, method, data, reply)>> IN
       IF reply.raises THEN Propagated(reply, done)
       ELSE Returned("Tooling Execute Result (JSON):\n" \o Dumps(reply.value), done)

apex_execute(arguments, connected, reply) ==
  LET action == ArgGet(arguments, "action")
      method == ArgGetDefault(arguments, "method", Str("GET"))
      data == ArgGet(arguments, "data") IN
  IF ~Truthy(action) THEN Raised("ValueError", "Missing 'action' argument", <<>>)
  ELSE IF ~connected THEN ConnectionError(<<>>)
  ELSE LET done == <<Op("apexecute", "", <<action>>,
                        << <<"method", method>>, <<"data", data>> >>, reply)>> IN
       IF reply.raises THEN Propagated(reply, done)
       ELSE Returned("Apex Execute Result (JSON):\n" \o Dumps(reply.value), done)

restful(arguments, connected, reply) ==
  LET path == ArgGet(arguments, "path")
      method == ArgGetDefault(arguments, "method", Str("GET"))
      params == ArgGet(arguments, "params")
      data == ArgGet(arguments, "data") IN
  IF ~Truthy(path) THEN Raised("ValueError", "Missing 'path' argument", <<>>)
  ELSE IF ~connected THEN ConnectionError(<<>>)
  ELSE LET done == <<Op("restful", "", <<path>>,
                        << <<"method", method>>, <<"params", params>>, <<"json", data>> >>,
                        reply)>> IN
       IF reply.raises THEN Propagated(reply, done)
       ELSE Returned("RESTful API Call Result (JSON):\n" \o Dumps(reply.value), done)

\* [s['name'] for s in global_describe['sobjects']]
SObjectNames(global_describe) ==
  LET sobjects == Item(global_describe, "sobjects").v
  IN [i \in 1..Len(sobjects) |-> Item(sobjects[i], "name")]

list_sobjects(arguments, connected, reply) ==
  IF ~connected THEN ConnectionError(<<>>)
  ELSE LET done == <<Op("describe", "", <<>>, <<>>, reply)>> IN
       IF reply.raises THEN Propagated(reply, done)
       ELSE Returned("Available SObjects (JSON):\n"
                     \o Dumps(List(SObjectNames(reply.value))), done)

\* the longest list of records or record ids a bulk call is given
MaxBulk == 2

\* the non-empty lists of at most MaxBulk elements of items
ListsOf(items) == {List(s) : s \in UNION {[1..n -> items] : n \in 1..MaxBulk}}

NewRecord == Dict(<< <<"Name", Str("X")>> >>)
IdRecord == Dict(<< <<"Id", Str("001x")>>, <<"Name", Str("X")>> >>)

\* a bulk operation answers with one result per record it was given
BulkReplies(records) ==
  { RemoteError,
    Returns(List([i \in 1..(IF IsList(records) THEN Len(records.v) ELSE 0) |->
                    Dict(<< <<"success", Bool(TRUE)>>, <<"created", Bool(FALSE)>>,
                            <<"id", Str("001x")>>, <<"errors", List(<<>>)>> >>)])) }

bulk_create_records(arguments, connected, reply) ==
  LET object_name == ArgGet(arguments, "object_name")
      records_data == ArgGet(arguments, "data") IN
  IF ~Truthy(object_name) \/ ~Truthy(records_data)
  THEN Raised("ValueError",
              "Missing 'object_name' or 'data' argument for bulk_create_records", <<>>)
  ELSE IF ~connected THEN ConnectionError(<<>>)
  ELSE IF ~IsList(records_data)
  THEN Raised("ValueError",
              "'data' argument must be a list of records for bulk_create_records", <<>>)
  ELSE LET done == <<Op("bulk.insert", object_name.v, <<records_data>>, <<>>, reply)>> IN
       IF reply.raises THEN Propagated(reply, done)
       ELSE Returned("Bulk Create " \o object_name.v \o " Results (JSON):\n"
                     \o Dumps(reply.value), done)

\* a test that accepts every object, with or without an 'Id'
BadUpdateRecordNotDict(record) == ~IsDict(record)

\* not isinstance(record, dict) or 'Id' not in record
BadUpdateRecord(record) == ~IsDict(record) \/ ~HasKey(record, "Id")

bulk_update_records(arguments, connected, reply) ==
  LET object_name == ArgGet(arguments, "object_name")
      records_data == ArgGet(arguments, "data") IN
  IF ~Truthy(object_name) \/ ~Truthy(records_data)
  THEN Raised("ValueError",
              "Missing 'object_name' or 'data' argument for bulk_update_records", <<>>)
  ELSE IF ~connected THEN ConnectionError(<<>>)
  ELSE IF ~IsList(records_data)
  THEN Raised("ValueError",
              "'data' argument must be a list of records for bulk_update_records", <<>>)
  ELSE IF \E i \in 1..Len(records_data.v) : BadUpdateRecord(records_data.v[i])
  THEN Raised("ValueError",
              "Each record in 'data' must be an object and include an 'Id' field for bulk updates.",
              <<>>)
  ELSE LET done == <<Op("bulk.update", object_name.v, <<records_data>>, <<>>, reply)>> IN
       IF reply.raises THEN Propagated(reply, done)
       ELSE Returned("Bulk Update " \o object_name.v \o " Results (JSON):\n"
                     \o Dumps(reply.value), done)

\* the ids passed on as they came
DataToDeleteIds(record_ids) == List(record_ids)

\* data_to_delete: {'Id': item} appended for each item, in order
DataToDelete(record_ids) == List([i \in 1..Len(record_ids) |-> Dict(<< <<"Id", record_ids[i]>> >>)])

\* bulk_op.delete(data_to_delete)
BulkDeleteOp(object_name, record_ids, reply) ==
  Op("bulk.delete", object_name, <<DataToDelete(record_ids)>>, <<>>, reply)

bulk_delete_records(arguments, connected, reply) ==
  LET object_name == ArgGet(arguments, "object_name")
      record_ids_to_delete == ArgGet(arguments, "record_ids") IN
  IF ~Truthy(object_name) \/ ~Truthy(record_ids_to_delete)
  THEN Raised("ValueError",
              "Missing 'object_name' or 'record_ids' argument for bulk_delete_records", <<>>)
  ELSE IF ~connected THEN ConnectionError(<<>>)
  ELSE IF ~IsList(record_ids_to_delete)
  THEN Raised("ValueError",
              "'record_ids' argument must be a list of strings for bulk_delete_records", <<>>)
  ELSE IF \E i \in 1..Len(record_ids_to_delete.v) : ~IsStr(record_ids_to_delete.v[i])
  THEN Raised("ValueError", "Each item in 'record_ids' must be a string ID.", <<>>)
  ELSE LET done == <<BulkDeleteOp(object_name.v, record_ids_to_delete.v, reply)>> IN
       IF reply.raises THEN Propagated(reply, done)
       ELSE Returned("Bulk Delete " \o object_name.v \o " Results (JSON):\n"
                     \o Dumps(reply.value), done)

get_record_types(arguments, connected, reply) ==
  LET object_name == ArgGet(arguments, "object_name") IN
  IF ~Truthy(object_name) THEN Raised("ValueError", "Missing 'object_name' argument", <<>>)
  ELSE IF ~connected THEN ConnectionError(<<>>)
  ELSE LET query == "SELECT Id, Name, DeveloperName, Description, IsActive FROM RecordType WHERE SobjectType = '"
                    \o object_name.v \o "'"
           done == <<Op("query", "", <<Str(query)>>, <<>>, reply)>> IN
       IF reply.raises THEN Propagated(reply, done)
       ELSE Returned(object_name.v \o " Record Types (JSON):\n" \o Dumps(reply.value), done)

\* the seven attributes get_user_permissions reports of a field
FieldPermission(field) ==
  Dict(<< <<"name", field["name"]>>, <<"label", field["label"]>>,
          <<"createable", field["createable"]>>, <<"updateable", field["updateable"]>>,
          <<"nillable", field["nillable"]>>, <<"filterable", field["filterable"]>>,
          <<"sortable", field["sortable"]>> >>)

UserPermissions(describe_result) ==
  Dict(<< <<"object_permissions",
            Dict(<< <<"createable", describe_result["createable"]>>,
                    <<"deletable", describe_result["deletable"]>>,
                    <<"queryable", describe_result["queryable"]>>,
                    <<"updateable", describe_result["updateable"]>>,
                    <<"retrieveable", describe_result["retrieveable"]>> >>)>>,
          <<"field_permissions",
            List([i \in 1..Len(describe_result["fields"]) |->
                    FieldPermission(describe_result["fields"][i])])>> >>)

get_user_permissions(arguments, connected, reply) ==
  LET object_name == ArgGet(arguments, "object_name") IN
  IF ~Truthy(object_name) THEN Raised("ValueError", "Missing 'object_name' argument", <<>>)
  ELSE IF ~connected THEN ConnectionError(<<>>)
  ELSE LET done == <<Op("describe", object_name.v, <<>>, <<>>, reply)>> IN
       IF reply.raises THEN Propagated(reply, done)
       ELSE Returned(object_name.v \o " User Permissions (JSON):\n"
                     \o Dumps(UserPermissions(reply.value)), done)

\* the Tooling API definition create_custom_field posts
FieldDefinition(arguments) ==
  LET field_type == arguments["field_type"]
      common == << <<"type", field_type>>, <<"label", arguments["field_label"]>>,
                   <<"required", ArgGetDefault(arguments, "required", Bool(FALSE))>>,
                   <<"unique", ArgGetDefault(arguments, "unique", Bool(FALSE))>>,
                   <<"externalId", ArgGetDefault(arguments, "external_id", Bool(FALSE))>> >>
      typed == IF field_type = Str("Text")
               THEN << <<"length", ArgGetDefault(arguments, "length", Num(255))>> >>
               ELSE IF field_type = Str("Number")
               THEN << <<"precision", ArgGetDefault(arguments, "precision", Num(18))>>,
                       <<"scale", ArgGetDefault(arguments, "scale", Num(0))>> >>
               ELSE <<>>
  IN Dict(<< <<"FullName", Str(arguments["object_name"].v \o "."
                               \o arguments["field_name"].v \o "__c")>>,
             <<"Metadata", Dict(common \o typed)>> >>)

create_custom_field(arguments, connected, reply) ==
  IF \E k \in {"object_name", "field_name", "field_type", "field_label"} :
       ~Truthy(ArgGet(arguments, k))
  THEN Raised("ValueError",
              "Missing required arguments: object_name, field_name, field_type, field_label",
              <<>>)
  ELSE IF ~connected THEN ConnectionError(<<>>)
  ELSE LET done == <<Op("toolingexecute", "", <<Str("sobjects/CustomField")>>,
                        << <<"method", Str("POST")>>, <<"data", FieldDefinition(arguments)>> >>,
                        reply)>> IN
       IF reply.raises THEN Returned("Error creating custom field: " \o reply.value.v, done)
       ELSE Returned("Create Custom Field Result (JSON):\n" \o Dumps(reply.value), done)

\* str.replace(old, ""): every occurrence of old removed, left to right
RECURSIVE Without(_, _)
Without(s, old) ==
  IF Len(s) < Len(old) THEN s
  ELSE IF SubSeq(s, 1, Len(old)) = old THEN Without(SubSeq(s, Len(old) + 1, Len(s)), old)
  ELSE SubSeq(s, 1, 1) \o Without(SubSeq(s, 2, Len(s)), old)

\* d.get("records") of an answer
RecordsOf(answer) == DictGet(answer, "records", None)

\* the update payload: one entry per update argument given, in this order
UpdateData(arguments) ==
  (IF "field_label" \in DOMAIN arguments THEN << <<"Label", arguments["field_label"]>> >> ELSE <<>>)
  \o (IF "required" \in DOMAIN arguments THEN << <<"Required", arguments["required"]>> >> ELSE <<>>)
  \o (IF "unique" \in DOMAIN arguments THEN << <<"Unique", arguments["unique"]>> >> ELSE <<>>)
  \o (IF "external_id" \in DOMAIN arguments
      THEN << <<"ExternalId", arguments["external_id"]>> >> ELSE <<>>)

update_custom_field(arguments, connected, found, reply) ==
  LET object_name == ArgGet(arguments, "object_name")
      field_name == ArgGet(arguments, "field_name") IN
  IF ~Truthy(object_name) \/ ~Truthy(field_name)
  THEN Raised("ValueError", "Missing required arguments: object_name, field_name", <<>>)
  ELSE IF ~connected THEN ConnectionError(<<>>)
  ELSE LET query == "SELECT Id FROM CustomField WHERE TableEnumOrId = '" \o object_name.v
                    \o "' AND DeveloperName = '" \o Without(field_name.v, "__c") \o "'"
           lookup == <<Op("toolingexecute", "", <<Str("query?q=" \o query)>>, <<>>, found)>>
       IN
       IF found.raises THEN Propagated(found, lookup)
       ELSE IF ~Truthy(RecordsOf(found.value))
       THEN Raised("ValueError", "Custom field " \o field_name.v \o " not found on "
                                 \o object_name.v, lookup)
       ELSE IF UpdateData(arguments) = <<>>
       THEN Raised("ValueError", "No update fields provided", lookup)
       ELSE LET field_id == Item(RecordsOf(found.value).v[1], "Id").v
                done == lookup \o <<Op("toolingexecute", "",
                                       <<Str("sobjects/CustomField/" \o field_id)>>,
                                       << <<"method", Str("PATCH")>>,
                                          <<"data", Dict(UpdateData(arguments))>> >>, reply)>>
            IN IF reply.raises
               THEN Returned("Error updating custom field: " \o reply.value.v, done)
               ELSE Returned("Update Custom Field Result (JSON):\n" \o Dumps(reply.value), done)

\* str.title() of the two permission type names
PermissionTypeTitle(is_profile) == IF Truthy(is_profile) THEN "Profile" ELSE "Permission Set"

\* a handler that creates a record without looking at the one it found
set_field_permissions_create_only(arguments, connected, perm, existing, reply) ==
  LET object_name == ArgGet(arguments, "object_name")
      field_name == ArgGet(arguments, "field_name")
      permission_set_name == ArgGetDefault(arguments, "permission_set_name",
                                           Str("System Administrator"))
      readable == ArgGetDefault(arguments, "readable", Bool(TRUE))
      editable == ArgGetDefault(arguments, "editable", Bool(TRUE)) IN
  IF ~Truthy(object_name) \/ ~Truthy(field_name)
  THEN Raised("ValueError",
              "Missing 'object_name' or 'field_name' argument for set_field_permissions", <<>>)
  ELSE IF ~connected
  THEN Returned("Error setting field permissions: "
                \o NoneTypeError("toolingexecute", <<>>).text, <<>>)
  ELSE LET first == <<Op("toolingexecute", "",
                         <<Str("query/?q=SELECT Id,Name,IsOwnedByProfile FROM PermissionSet WHERE Name='"
                               \o PyStr(permission_set_name) \o "'")>>, <<>>, perm)>> IN
       IF perm.raises THEN Returned("Error setting field permissions: " \o perm.value.v, first)
       ELSE IF ~Truthy(RecordsOf(perm.value))
       THEN Returned("Permission set/profile '" \o PyStr(permission_set_name)
                     \o "' not found.", first)
       ELSE
       LET perm_set_id == Item(RecordsOf(perm.value).v[1], "Id")
           is_profile == Item(RecordsOf(perm.value).v[1], "IsOwnedByProfile")
           second == first \o <<Op("toolingexecute", "",
                         <<Str("query/?q=SELECT Id FROM FieldPermissions WHERE ParentId='"
                               \o perm_set_id.v \o "' AND Field='" \o object_name.v \o "."
                               \o field_name.v \o "'")>>, <<>>, existing)>>
           field_permission_data ==
             Dict(<< <<"ParentId", perm_set_id>>, <<"SobjectType", object_name>>,
                     <<"Field", Str(object_name.v \o "." \o field_name.v)>>,
                     <<"PermissionsRead", readable>>, <<"PermissionsEdit", editable>> >>)
       IN
       IF existing.raises
       THEN Returned("Error setting field permissions: " \o existing.value.v, second)
       ELSE
       LET update == FALSE
           write == IF update
                    THEN Op("toolingexecute", "",
                            <<Str("sobjects/FieldPermissions/"
                                  \o Item(RecordsOf(existing.value).v[1], "Id").v)>>,
                            << <<"method", Str("PATCH")>>, <<"data", field_permission_data>> >>,
                            reply)
                    ELSE Op("toolingexecute", "", <<Str("sobjects/FieldPermissions")>>,
                            << <<"method", Str("POST")>>, <<"data", field_permission_data>> >>,
                            reply)
           done == second \o <<write>>
       IN
       IF reply.raises
       THEN Returned("Error setting field permissions: " \o reply.value.v, done)
       ELSE Returned("Field permissions " \o (IF update THEN "updated" ELSE "created")
                     \o " successfully!\n"
                     \o "Field: " \o object_name.v \o "." \o field_name.v \o "\n"
                     \o PermissionTypeTitle(is_profile) \o ": " \o PyStr(permission_set_name) \o "\n"
                     \o "Readable: " \o PyStr(readable) \o "\n"
                     \o "Editable: " \o PyStr(editable) \o "\n"
                     \o "Result: " \o Dumps(reply.value), done)

set_field_permissions(arguments, connected, perm, existing, reply) ==
  LET object_name == ArgGet(arguments, "object_name")
      field_name == ArgGet(arguments, "field_name")
      permission_set_name == ArgGetDefault(arguments, "permission_set_name",
                                           Str("System Administrator"))
      readable == ArgGetDefault(arguments, "readable", Bool(TRUE))
      editable == ArgGetDefault(arguments, "editable", Bool(TRUE)) IN
  IF ~Truthy(object_name) \/ ~Truthy(field_name)
  THEN Raised("ValueError",
              "Missing 'object_name' or 'field_name' argument for set_field_permissions", <<>>)
  ELSE IF ~connected
  THEN Returned("Error setting field permissions: "
                \o NoneTypeError("toolingexecute", <<>>).text, <<>>)
  ELSE LET first == <<Op("toolingexecute", "",
                         <<Str("query/?q=SELECT Id,Name,IsOwnedByProfile FROM PermissionSet WHERE Name='"
                               \o PyStr(permission_set_name) \o "'")>>, <<>>, perm)>> IN
       IF perm.raises THEN Returned("Error setting field permissions: " \o perm.value.v, first)
       ELSE IF ~Truthy(RecordsOf(perm.value))
       THEN Returned("Permission set/profile '" \o PyStr(permission_set_name)
                     \o "' not found.", first)
       ELSE
       LET perm_set_id == Item(RecordsOf(perm.value).v[1], "Id")
           is_profile == Item(RecordsOf(perm.value).v[1], "IsOwnedByProfile")
           second == first \o <<Op("toolingexecute", "",
                         <<Str("query/?q=SELECT Id FROM FieldPermissions WHERE ParentId='"
                               \o perm_set_id.v \o "' AND Field='" \o object_name.v \o "."
                               \o field_name.v \o "'")>>, <<>>, existing)>>
           field_permission_data ==
             Dict(<< <<"ParentId", perm_set_id>>, <<"SobjectType", object_name>>,
                     <<"Field", Str(object_name.v \o "." \o field_name.v)>>,
                     <<"PermissionsRead", readable>>, <<"PermissionsEdit", editable>> >>)
       IN
       IF existing.raises
       THEN Returned("Error setting field permissions: " \o existing.value.v, second)
       ELSE
       LET update == Truthy(RecordsOf(existing.value))
           write == IF update
                    THEN Op("toolingexecute", "",
                            <<Str("sobjects/FieldPermissions/"
                                  \o Item(RecordsOf(existing.value).v[1], "Id").v)>>,
                            << <<"method", Str("PATCH")>>, <<"data", field_permission_data>> >>,
                            reply)
                    ELSE Op("toolingexecute", "", <<Str("sobjects/FieldPermissions")>>,
                            << <<"method", Str("POST")>>, <<"data", field_permission_data>> >>,
                            reply)
           done == second \o <<write>>
       IN
       IF reply.raises
       THEN Returned("Error setting field permissions: " \o reply.value.v, done)
       ELSE Returned("Field permissions " \o (IF update THEN "updated" ELSE "created")
                     \o " successfully!\n"
                     \o "Field: " \o object_name.v \o "." \o field_name.v \o "\n"
                     \o PermissionTypeTitle(is_profile) \o ": " \o PyStr(permission_set_name) \o "\n"
                     \o "Readable: " \o PyStr(readable) \o "\n"
                     \o "Editable: " \o PyStr(editable) \o "\n"
                     \o "Result: " \o Dumps(reply.value), done)

\* one entry of the permissions list get_field_permissions reports
PermissionEntry(perm) ==
  Dict(<< <<"name", Item(Item(perm, "Parent"), "Name")>>,
          <<"type", Str(IF Truthy(Item(Item(perm, "Parent"), "IsOwnedByProfile"))
                        THEN "Profile" ELSE "Permission Set")>>,
          <<"readable", Item(perm, "PermissionsRead")>>,
          <<"editable", Item(perm, "PermissionsEdit")>>,
          <<"id", Item(perm, "ParentId")>> >>)

get_field_permissions(arguments, connected, reply) ==
  LET object_name == ArgGet(arguments, "object_name")
      field_name == ArgGet(arguments, "field_name") IN
  IF ~Truthy(object_name) \/ ~Truthy(field_name)
  THEN Raised("ValueError",
              "Missing 'object_name' or 'field_name' argument for get_field_permissions", <<>>)
  ELSE IF ~connected
  THEN Returned("Error getting field permissions: "
                \o NoneTypeError("toolingexecute", <<>>).text, <<>>)
  ELSE LET done == <<Op("toolingexecute", "",
                        <<Str("query/?q=SELECT Id,ParentId,Parent.Name,Parent.IsOwnedByProfile,PermissionsRead,PermissionsEdit,Field FROM FieldPermissions WHERE Field='"
                              \o object_name.v \o "." \o field_name.v \o "'")>>, <<>>, reply)>>
       IN
       IF reply.raises THEN Returned("Error getting field permissions: " \o reply.value.v, done)
       ELSE IF ~Truthy(RecordsOf(reply.value))
       THEN Returned("No field permissions found for " \o object_name.v \o "." \o field_name.v,
                     done)
       ELSE LET records == RecordsOf(reply.value).v IN
            Returned("Field Permissions for " \o object_name.v \o "." \o field_name.v \o ":\n"
                     \o Dumps(List([i \in 1..Len(records) |-> PermissionEntry(records[i])])),
                     done)

\* a handler that answers a name held in sobjects_cache without a describe
get_field_details_cached(arguments, connected, reply) ==
  LET object_name == ArgGet(arguments, "object_name")
      field_name == ArgGet(arguments, "field_name") IN
  IF ~Truthy(object_name) \/ ~Truthy(field_name)
  THEN Raised("ValueError",
              "Missing 'object_name' or 'field_name' argument for get_field_details", <<>>)
  ELSE LET got == ClientGetFieldDetails(connected, object_name.v, field_name.v, reply)
           done == IF object_name.v \in DOMAIN sobjects_cache THEN <<>> ELSE got.ops IN
       IF got.kind = "raise" THEN Returned("Error getting field details: " \o got.text, done)
       ELSE Returned("Field Details for " \o object_name.v \o "." \o field_name.v
                     \o " (JSON):\n" \o got.text, done)

get_field_details(arguments, connected, reply) ==
  LET object_name == ArgGet(arguments, "object_name")
      field_name == ArgGet(arguments, "field_name") IN
  IF ~Truthy(object_name) \/ ~Truthy(field_name)
  THEN Raised("ValueError",
              "Missing 'object_name' or 'field_name' argument for get_field_details", <<>>)
  ELSE LET got == ClientGetFieldDetails(connected, object_name.v, field_name.v, reply) IN
       IF got.kind = "raise" THEN Returned("Error getting field details: " \o got.text, got.ops)
       ELSE Returned("Field Details for " \o object_name.v \o "." \o field_name.v
                     \o " (JSON):\n" \o got.text, got.ops)

\* [key for key in record.keys() if key != 'attributes']
RECURSIVE KeysFrom(_, _)
KeysFrom(pairs, i) ==
  IF i > Len(pairs) THEN <<>>
  ELSE (IF pairs[i][1] # "attributes" THEN <<pairs[i][1]>> ELSE <<>>) \o KeysFrom(pairs, i + 1)

FieldNamesOf(record) == KeysFrom(record.v, 1)

\* the text the csv writer makes of a value: None is empty, the rest is str(value)
CsvText(x) == IF x.t = "none" THEN "" ELSE PyStr(x)

\* a field holding the delimiter, the quote character or a line break is quoted
NeedsQuotes(s) ==
  \E i \in 1..Len(s) : SubSeq(s, i, i) \in {",", "\"", "\r", "\n"}

RECURSIVE QuotesDoubled(_)
QuotesDoubled(s) ==
  IF s = "" THEN ""
  ELSE (IF SubSeq(s, 1, 1) = "\"" THEN "\"\"" ELSE SubSeq(s, 1, 1))
       \o QuotesDoubled(SubSeq(s, 2, Len(s)))

CsvField(s) == IF NeedsQuotes(s) THEN "\"" \o QuotesDoubled(s) \o "\"" ELSE s

RECURSIVE CsvJoin(_, _)
CsvJoin(texts, i) ==
  IF i > Len(texts) THEN ""
  ELSE CsvField(texts[i]) \o (IF i < Len(texts) THEN "," ELSE "") \o CsvJoin(texts, i + 1)

\* one line as csv.writer writes it; a lone empty field is written quoted
CsvLine(texts) ==
  (IF texts = <<"">> THEN "\"\"" ELSE CsvJoin(texts, 1)) \o "\r\n"

\* writer.writeheader()
HeaderLine(field_names) == CsvLine(field_names)

\* the record without 'attributes' has a key that is no field name
HasExtraKey(record, field_names) ==
  \E i \in 1..Len(record.v) :
    /\ record.v[i][1] # "attributes"
    /\ \A j \in 1..Len(field_names) : field_names[j] # record.v[i][1]

\* repr of the keys of the first record with an extra key that are no field names
RECURSIVE ExtraKeysFrom(_, _, _)
ExtraKeysFrom(pairs, field_names, i) ==
  IF i > Len(pairs) THEN <<>>
  ELSE (IF pairs[i][1] # "attributes" /\ \A j \in 1..Len(field_names) : field_names[j] # pairs[i][1]
        THEN <<"'" \o pairs[i][1] \o "'">> ELSE <<>>)
       \o ExtraKeysFrom(pairs, field_names, i + 1)

\* writer.writerow(clean_record): a field the record lacks is written empty
RowLine(record, field_names) ==
  CsvLine([j \in 1..Len(field_names) |->
             IF HasKey(record, field_names[j]) THEN CsvText(Item(record, field_names[j]))
             ELSE ""])

RECURSIVE Concat(_, _)
Concat(lines, i) == IF i > Len(lines) THEN "" ELSE lines[i] \o Concat(lines, i + 1)

RECURSIVE JoinWith(_, _, _)
JoinWith(texts, sep, i) ==
  IF i > Len(texts) THEN ""
  ELSE texts[i] \o (IF i < Len(texts) THEN sep ELSE "") \o JoinWith(texts, sep, i + 1)

PreviewLimit == 500

\* the lines the writer wrote before a record with an extra key stopped it
WrittenLines(records, field_names) ==
  LET stop == IF \E i \in 1..Len(records) : HasExtraKey(records[i], field_names)
              THEN (CHOOSE i \in 1..Len(records) :
                      /\ HasExtraKey(records[i], field_names)
                      /\ \A j \in 1..(i - 1) : ~HasExtraKey(records[j], field_names)) - 1
              ELSE Len(records)
  IN <<HeaderLine(field_names)>> \o [i \in 1..stop |-> RowLine(records[i], field_names)]

ExtraKeysText(records, field_names) ==
  LET i == CHOOSE k \in 1..Len(records) :
             /\ HasExtraKey(records[k], field_names)
             /\ \A j \in 1..(k - 1) : ~HasExtraKey(records[j], field_names)
  IN JoinWith(ExtraKeysFrom(records[i].v, field_names, 1), ", ", 1)

\* the message of the branch that found no records
NoRecordsText == "No records found for the query. CSV file not created."

\* a check that never finds the list empty
NoRecordsNever(records) == FALSE

\* not records
NoRecords(records) == ~Truthy(records)

\* the branch of export_data_csv: the result, with the lines the csv writer wrote
export_data_csv(arguments, connected, reply) ==
  LET query == ArgGet(arguments, "query")
      filename == ArgGetDefault(arguments, "filename", Str("export.csv")) IN
  IF ~Truthy(query)
  THEN [res |-> Raised("ValueError", "Missing 'query' argument for export_data_csv", <<>>),
        written |-> <<>>]
  ELSE IF ~connected THEN [res |-> ConnectionError(<<>>), written |-> <<>>]
  ELSE LET done == <<Op("query_all", "", <<query>>, <<>>, reply)>> IN
       IF reply.raises
       THEN [res |-> Returned("Error exporting data to CSV: " \o reply.value.v, done),
             written |-> <<>>]
       ELSE LET records == DictGet(reply.value, "records", List(<<>>)) IN
       IF NoRecords(records) THEN [res |-> Returned(NoRecordsText, done), written |-> <<>>]
       ELSE IF records.v = <<>>
       THEN \* records[0] of an empty list raises IndexError inside the try
            [res |-> Returned("Error exporting data to CSV: list index out of range", done),
             written |-> <<>>]
       ELSE LET field_names == FieldNamesOf(records.v[1])
                lines == WrittenLines(records.v, field_names)
                csv_content == Concat(lines, 1)
            IN IF \E i \in 1..Len(records.v) : HasExtraKey(records.v[i], field_names)
               THEN [res |-> Returned("Error exporting data to CSV: dict contains fields not in fieldnames: "
                                      \o ExtraKeysText(records.v, field_names),
                                      done),
                     written |-> lines]
               ELSE [res |-> Returned("CSV Export completed successfully!\n\nFilename: "
                                      \o PyStr(filename) \o "\nRecords exported: "
                                      \o ToString(Len(records.v)) \o "\nFields: "
                                      \o JoinWith(field_names, ", ", 1)
                                      \o "\n\nCSV Content Preview (first 500 chars):\n"
                                      \o Prefix(csv_content, PreviewLimit)
                                      \o (IF Len(csv_content) > PreviewLimit THEN "..." ELSE ""),
                                      done),
                     written |-> lines]

ReportsQuery ==
  "SELECT Id,Name,DeveloperName,FolderName,Description,LastRunDate FROM Report ORDER BY FolderName, Name"
FoldersQuery ==
  "SELECT Id,Name,DeveloperName,Type FROM Folder WHERE Type = 'Report' ORDER BY Name"

\* the folders are still queried after the query of the reports raised
list_reports_continued(arguments, connected, reports, folders) ==
  IF ~connected THEN ConnectionError(<<>>)
  ELSE LET done == << Op("query", "", <<Str(ReportsQuery)>>, <<>>, reports),
                      Op("query", "", <<Str(FoldersQuery)>>, <<>>, folders) >> IN
       IF reports.raises THEN Returned("Error listing reports: " \o reports.value.v, done)
       ELSE IF folders.raises THEN Returned("Error listing reports: " \o folders.value.v, done)
       ELSE Returned("Reports and Folders (JSON):\n", done)

list_reports(arguments, connected, reports, folders) ==
  IF ~connected THEN ConnectionError(<<>>)
  ELSE LET first == <<Op("query", "", <<Str(ReportsQuery)>>, <<>>, reports)>> IN
       IF reports.raises THEN Returned("Error listing reports: " \o reports.value.v, first)
       ELSE LET done == first \o <<Op("query", "", <<Str(FoldersQuery)>>, <<>>, folders)>> IN
       IF folders.raises THEN Returned("Error listing reports: " \o folders.value.v, done)
       ELSE LET report_records == DictGet(reports.value, "records", List(<<>>))
                folder_records == DictGet(folders.value, "records", List(<<>>))
            IN Returned("Reports and Folders (JSON):\n"
                        \o Dumps(Dict(<< <<"reports", report_records>>,
                                         <<"folders", folder_records>>,
                                         <<"total_reports", Num(Len(report_records.v))>>,
                                         <<"total_folders", Num(Len(folder_records.v))>> >>)),
                        done)

ActiveFilter(include_inactive) == IF Truthy(include_inactive) THEN "" ELSE "WHERE IsActive = TRUE"

UsersQuery(include_inactive, limit) ==
  "\n            SELECT Id, Username, FirstName, LastName, Email, IsActive, \n                   Profile.Name, UserRole.Name, LastLoginDate, CreatedDate\n            FROM User \n            "
  \o ActiveFilter(include_inactive)
  \o "\n            ORDER BY LastName, FirstName\n            LIMIT " \o PyStr(limit)
  \o "\n            "

list_users(arguments, connected, users, count) ==
  LET include_inactive == ArgGetDefault(arguments, "include_inactive", Bool(FALSE))
      limit == ArgGetDefault(arguments, "limit", Num(100)) IN
  IF ~connected THEN ConnectionError(<<>>)
  ELSE LET first == <<Op("query", "", <<Str(UsersQuery(include_inactive, limit))>>, <<>>, users)>>
       IN
       IF users.raises THEN Returned("Error listing users: " \o users.value.v, first)
       ELSE LET done == first \o <<Op("query", "",
                                      <<Str("SELECT COUNT() FROM User "
                                            \o ActiveFilter(include_inactive))>>, <<>>, count)>>
       IN
       IF count.raises THEN Returned("Error listing users: " \o count.value.v, done)
       ELSE LET user_records == DictGet(users.value, "records", List(<<>>)) IN
            Returned("Users List (JSON):\n"
                     \o Dumps(Dict(<< <<"users", user_records>>,
                                      <<"total_count", Item(count.value, "totalSize")>>,
                                      <<"returned_count", Num(Len(user_records.v))>>,
                                      <<"include_inactive", include_inactive>>,
                                      <<"limit", limit>> >>)),
                     done)

\* limits.get(name, {}).get(key, 0)
LimitOf(limits, name, key) == DictGet(DictGet(limits, name, Dict(<<>>)), key, Num(0)).v

LimitsSummary(limits) ==
  Dict(<< <<"api_requests_used", Num(LimitOf(limits, "DailyApiRequests", "Max")
                                     - LimitOf(limits, "DailyApiRequests", "Remaining"))>>,
          <<"api_requests_remaining", Num(LimitOf(limits, "DailyApiRequests", "Remaining"))>>,
          <<"api_requests_limit", Num(LimitOf(limits, "DailyApiRequests", "Max"))>>,
          <<"data_storage_used_mb", Num(LimitOf(limits, "DataStorageMB", "Max")
                                        - LimitOf(limits, "DataStorageMB", "Remaining"))>>,
          <<"data_storage_remaining_mb", Num(LimitOf(limits, "DataStorageMB", "Remaining"))>>,
          <<"data_storage_limit_mb", Num(LimitOf(limits, "DataStorageMB", "Max"))>> >>)

get_org_limits(arguments, connected, limits, org_info) ==
  IF ~connected THEN ConnectionError(<<>>)
  ELSE LET first == <<Op("restful", "", <<Str("limits")>>, <<>>, limits)>> IN
       IF limits.raises
       THEN Returned("Error getting organization limits: " \o limits.value.v, first)
       ELSE LET done == first \o <<Op("query", "",
              <<Str("SELECT Id, Name, OrganizationType, IsSandbox, InstanceName FROM Organization")>>,
              <<>>, org_info)>> IN
       IF org_info.raises
       THEN Returned("Error getting organization limits: " \o org_info.value.v, done)
       ELSE LET records == DictGet(org_info.value, "records", None) IN
            Returned("Organization Limits and Info (JSON):\n"
                     \o Dumps(Dict(<< <<"organization",
                                        IF Truthy(records) THEN records.v[1] ELSE Dict(<<>>)>>,
                                      <<"limits", limits.value>>,
                                      <<"summary", LimitsSummary(limits.value)>> >>)),
                     done)

-----------------------------------------------------------------------------
(* The process: startup, then one invocation at a time.                    *)

Connected == sf # "None"

NoCall == [name |-> "", arguments |-> EmptyFunction]
NoOutcome == [kind |-> "none", exc |-> "", text |-> ""]

Init ==
  /\ pc = "startup"
  /\ sf = "None"
  /\ sobjects_cache = EmptyFunction
  /\ remote \in [RemoteObjects -> 1..Len(Describes)]
  /\ call = NoCall
  /\ outcome = NoOutcome
  /\ ops = <<>>
  /\ written = <<>>
  /\ described = [o \in ObjectNames |-> 0]
  /\ first_result = [o \in ObjectNames |-> ""]
  /\ connect_result = "unset"
  /\ listing = <<>>
  /\ tasks = <<>>

\* which credentials the environment holds: SALESFORCE_ACCESS_TOKEN with
\* SALESFORCE_INSTANCE_URL, or the username and password variables
Credentials == {"token", "password"}

\* a connect without its except clause: the error of the constructor leaves it
ClientConnectUncaught(current, credentials, established) ==
  IF established
  THEN [sf |-> "Salesforce", result |-> "True", raised |-> FALSE]
  ELSE [sf |-> current, result |-> "unset", raised |-> TRUE]

\* SalesforceClient.connect: the Salesforce(...) constructor for the credentials
\* at hand returns and self.sf is set, or it raises; the except clause prints
\* the error and returns False, and self.sf is left as __init__ set it
ClientConnect(current, credentials, established) ==
  IF established
  THEN [sf |-> "Salesforce", result |-> "True", raised |-> FALSE]
  ELSE [sf |-> current, result |-> "False", raised |-> FALSE]

\* module load: sf_client.connect() runs once; when it returns False a message
\* is printed and the module goes on to register the handlers and serve
connect ==
  /\ pc = "startup"
  /\ \E credentials \in Credentials, established \in BOOLEAN :
       LET done == ClientConnect(sf, credentials, established) IN
       /\ sf' = done.sf
       /\ connect_result' = done.result
       /\ pc' = IF done.raised THEN "exited" ELSE "idle"
  /\ UNCHANGED <<sobjects_cache, remote, call, outcome, ops, written, described, first_result,
                 listing, tasks>>

\* an administrator changes the schema of an object of the org
SchemaChange ==
  /\ pc = "idle"
  /\ \E o \in RemoteObjects, i \in 1..Len(Describes) :
       /\ i # remote[o]
       /\ remote' = [remote EXCEPT ![o] = i]
  /\ UNCHANGED <<pc, sf, sobjects_cache, call, outcome, ops, written, described, first_result,
                 connect_result, listing, tasks>>

\* the server sends the response of the invocation that ended; nothing of the
\* invocation is kept
Respond ==
  /\ pc = "responding"
  /\ pc' = "idle"
  /\ call' = NoCall
  /\ outcome' = NoOutcome
  /\ ops' = <<>>
  /\ written' = <<>>
  /\ listing' = <<>>
  /\ UNCHANGED <<sf, sobjects_cache, remote, described, first_result, connect_result, tasks>>

\* the connection is dropped when the invocation raised or the adapter did
SfDroppedOnError(res) ==
  IF res.kind = "raise" \/ (\E i \in 1..Len(res.ops) : res.ops[i].raised) THEN "None" ELSE sf

\* sf_client.sf after an invocation: no branch of handle_call_tool and no
\* method of the client it calls assigns self.sf, however the invocation ends
SfAfterInvocation(res) == sf

\* handle_call_tool(name, arguments) ran and ended as res says
Invocation(name, arguments, res) ==
  /\ pc = "idle"
  /\ pc' = "responding"
  /\ call' = [name |-> name, arguments |-> arguments]
  /\ outcome' = [kind |-> res.kind, exc |-> res.exc, text |-> res.text]
  /\ ops' = res.ops
  /\ sf' = SfAfterInvocation(res)
  /\ UNCHANGED <<remote, connect_result, listing>>

\* an invocation of a tool that keeps nothing and writes no csv
Plain(name, arguments, res) ==
  /\ Invocation(name, arguments, res)
  /\ UNCHANGED <<sobjects_cache, written, described, first_result, tasks>>

-----------------------------------------------------------------------------
(* The tool registry.                                                      *)

\* the list handle_list_tools returns: of each descriptor its name, the names
\* of the properties of its inputSchema and its "required" list, in source
\* order; four descriptors have no "required" list
ToolDescriptors ==
  <<
    [name |-> "run_soql_query", properties |-> <<"query">>, required |-> <<"query">>],
    [name |-> "run_sosl_search", properties |-> <<"search">>, required |-> <<"search">>],
    [name |-> "get_object_fields",
     properties |-> <<"object_name">>,
     required |-> <<"object_name">>],
    [name |-> "get_record",
     properties |-> <<"object_name", "record_id">>,
     required |-> <<"object_name", "record_id">>],
    [name |-> "create_record",
     properties |-> <<"object_name", "data">>,
     required |-> <<"object_name", "data">>],
    [name |-> "update_record",
     properties |-> <<"object_name", "record_id", "data">>,
     required |-> <<"object_name", "record_id", "data">>],
    [name |-> "delete_record",
     properties |-> <<"object_name", "record_id">>,
     required |-> <<"object_name", "record_id">>],
    [name |-> "tooling_execute",
     properties |-> <<"action", "method", "data">>,
     required |-> <<"action">>],
    [name |-> "apex_execute",
     properties |-> <<"action", "method", "data">>,
     required |-> <<"action">>],
    [name |-> "restful",
     properties |-> <<"path", "method", "params", "data">>,
     required |-> <<"path">>],
    [name |-> "list_sobjects", properties |-> <<>>, required |-> <<>>],
    [name |-> "bulk_create_records",
     properties |-> <<"object_name", "data">>,
     required |-> <<"object_name", "data">>],
    [name |-> "bulk_update_records",
     properties |-> <<"object_name", "data">>,
     required |-> <<"object_name", "data">>],
    [name |-> "bulk_delete_records",
     properties |-> <<"object_name", "record_ids">>,
     required |-> <<"object_name", "record_ids">>],
    [name |-> "get_record_types",
     properties |-> <<"object_name">>,
     required |-> <<"object_name">>],
    [name |-> "get_user_permissions",
     properties |-> <<"object_name">>,
     required |-> <<"object_name">>],
    [name |-> "create_custom_field",
     properties |-> <<"object_name", "field_name", "field_type", "field_label", "length",
       "precision", "scale", "required", "unique", "external_id">>,
     required |-> <<"object_name", "field_name", "field_type", "field_label">>],
    [name |-> "update_custom_field",
     properties |-> <<"object_name", "field_name", "field_label", "required", "unique",
       "external_id">>,
     required |-> <<"object_name", "field_name">>],
    [name |-> "set_field_permissions",
     properties |-> <<"object_name", "field_name", "permission_set_name", "readable",
       "editable">>,
     required |-> <<"object_name", "field_name">>],
    [name |-> "get_field_permissions",
     properties |-> <<"object_name", "field_name">>,
     required |-> <<"object_name", "field_name">>],
    [name |-> "get_field_details",
     properties |-> <<"object_name", "field_name">>,
     required |-> <<"object_name", "field_name">>],
    [name |-> "export_data_csv",
     properties |-> <<"query", "filename">>,
     required |-> <<"query">>],
    [name |-> "list_reports", properties |-> <<"folder_id">>, required |-> <<>>],
    [name |-> "list_users", properties |-> <<"include_inactive", "limit">>, required |-> <<>>],
    [name |-> "get_org_limits", properties |-> <<>>, required |-> <<>>]
  >>

\* a registry that offers its tools only while the adapter is connected
handle_list_tools_connected == IF sf # "None" THEN ToolDescriptors ELSE <<>>

\* handle_list_tools(): takes no argument and reads no state
handle_list_tools == ToolDescriptors

\* a tools/list request is served
Call_list_tools ==
  /\ pc = "idle"
  /\ pc' = "responding"
  /\ call' = [name |-> "tools/list", arguments |-> EmptyFunction]
  /\ outcome' = [kind |-> "return", exc |-> "", text |-> ""]
  /\ listing' = handle_list_tools
  /\ UNCHANGED <<sf, sobjects_cache, remote, ops, written, described, first_result,
                 connect_result, tasks>>

\* values of the arguments, by kind, as the input schemas of the tools type them
Values ==
  [ ObjectName |-> {Str(o) : o \in ObjectNames},
    RecordId |-> {Str("001x")},
    Data |-> {Dict(<< <<"Name", Str("X")>> >>)},
    Query |-> {Str("SELECT Id FROM Account")},
    Search |-> {Str("FIND {Acme}")},
    Method |-> {Str("POST"), Str("")},
    Action |-> {Str("sobjects/ApexClass")},
    Path |-> {Str("limits")},
    Params |-> {Dict(<< <<"detail", Str("full")>> >>)},
    BulkCreate |-> ListsOf({NewRecord}) \cup {NewRecord},
    BulkUpdate |-> ListsOf({IdRecord, NewRecord, Str("001x")}) \cup {IdRecord},
    BulkDelete |-> ListsOf({Str("001x"), Str("001y"), Num(7)}) \cup {Str("001x")},
    FieldName |-> {Str("name"), Str("nam"), Str("FirstName")},
    CustomFieldName |-> {Str("Region__c")},
    FieldType |-> {Str("Text"), Str("Number"), Str("Checkbox")},
    FieldLabel |-> {Str("Region")},
    PermissionSet |-> {Str("Sales")},
    Filename |-> {Str("accounts.csv")},
    FolderId |-> {Str("00l1")},
    IncludeInactive |-> {Bool(TRUE)},
    Limit |-> {Num(5)} ]

\* what the adapter answers to each operation: an error or a result
Replies ==
  [ Query |->
        { RemoteError, Returns(Envelope(<<>>)), Returns(Envelope(<<Record("001x", "Acme")>>)),
        Returns(Envelope(<<Record("001x", "Acme"), Record("001y", "Bolt, Inc")>>)),
        Returns(Envelope(<<Record("001x", Padding(PreviewLimit - 16))>>)),
        Returns(Envelope(<<Record("001x", Padding(PreviewLimit - 15))>>)) },
    Search |->
        { RemoteError, Returns(Dict(<< <<"searchRecords", List(<<Record("001x", "Acme")>>)>> >>)) },
    Get |-> { RemoteError, Returns(Record("001x", "Acme")) },
    Create |->
        { RemoteError,
        Returns(Dict(<< <<"id", Str("001x")>>, <<"success", Bool(TRUE)>>, <<"errors", List(<<>>)>> >>)) },
    Status |-> { RemoteError, Returns(Num(204)), Returns(Num(200)) },
    Execute |->
        { RemoteError,
        Returns(Dict(<< <<"size", Num(0)>>, <<"totalSize", Num(0)>>, <<"records", List(<<>>)>> >>)) },
    GlobalDescribe |->
        { RemoteError,
        Returns(Dict(<< <<"encoding", Str("UTF-8")>>,
        <<"sobjects", List(<< Dict(<< <<"name", Str("Account")>>,
        <<"label", Str("Account")>> >>),
        Dict(<< <<"name", Str("Contact")>>,
        <<"label", Str("Contact")>> >>) >>)>> >>)) },
    RecordType |->
        { RemoteError, Returns(Envelope(<<>>)), Returns(Envelope(<<Record("012x", "Partner")>>)) },
    CreateField |->
        { RemoteError,
        Returns(Dict(<< <<"id", Str("00N1")>>, <<"success", Bool(TRUE)>>, <<"errors", List(<<>>)>> >>)) },
    FieldId |->
        { RemoteError, Returns(Dict(<< <<"size", Num(0)>>, <<"records", List(<<>>)>> >>)),
        Returns(Dict(<< <<"size", Num(1)>>,
        <<"records", List(<< Dict(<< <<"Id", Str("00N1")>> >>) >>)>> >>)) },
    Patch |-> { RemoteError, Returns(None) },
    PermissionSet |->
        { RemoteError, Returns(Dict(<< <<"records", List(<<>>)>> >>)),
        Returns(Dict(<< <<"records", List(<< Dict(<< <<"Id", Str("0PS1")>>, <<"Name", Str("Sales")>>,
        <<"IsOwnedByProfile", Bool(FALSE)>> >>) >>)>> >>)),
        Returns(Dict(<< <<"records", List(<< Dict(<< <<"Id", Str("0PS2")>>, <<"Name", Str("Admin")>>,
        <<"IsOwnedByProfile", Bool(TRUE)>> >>) >>)>> >>)) },
    FieldPermissionId |->
        { RemoteError, Returns(Dict(<< <<"records", List(<<>>)>> >>)),
        Returns(Dict(<< <<"records", List(<< Dict(<< <<"Id", Str("01k1")>> >>) >>)>> >>)) },
    Post |->
        { RemoteError, Returns(Dict(<< <<"id", Str("01k2")>>, <<"success", Bool(TRUE)>> >>)) },
    FieldPermissions |->
        { RemoteError, Returns(Dict(<< <<"records", List(<<>>)>> >>)),
        Returns(Dict(<< <<"records", List(<<
        Dict(<< <<"Id", Str("01k1")>>, <<"ParentId", Str("0PS1")>>,
        <<"Parent", Dict(<< <<"Name", Str("Sales")>>,
        <<"IsOwnedByProfile", Bool(FALSE)>> >>)>>,
        <<"PermissionsRead", Bool(TRUE)>>, <<"PermissionsEdit", Bool(FALSE)>>,
        <<"Field", Str("Account.Region__c")>> >>) >>)>> >>)) },
    Report |->
        { RemoteError, Returns(Envelope(<<>>)),
        Returns(Envelope(<< Dict(<< <<"Id", Str("00O1")>>, <<"Name", Str("Pipeline")>>,
        <<"FolderName", Str("Sales")>> >>),
        Dict(<< <<"Id", Str("00O2")>>, <<"Name", Str("Cases")>>,
        <<"FolderName", Str("Support")>> >>) >>)) },
    Folder |->
        { RemoteError,
        Returns(Envelope(<< Dict(<< <<"Id", Str("00l1")>>, <<"Name", Str("Sales")>> >>) >>)) },
    User |->
        { RemoteError,
        Returns(Envelope(<< Dict(<< <<"Id", Str("0051")>>, <<"Username", Str("ada@example.com")>>,
        <<"IsActive", Bool(TRUE)>> >>) >>)) },
    Count |->
        { RemoteError,
        Returns(Dict(<< <<"totalSize", Num(7)>>, <<"done", Bool(TRUE)>>, <<"records", List(<<>>)>> >>)) },
    Limits |->
        { RemoteError, Returns(Dict(<<>>)),
        Returns(Dict(<< <<"DailyApiRequests", Dict(<< <<"Max", Num(15000)>>,
        <<"Remaining", Num(14998)>> >>)>>,
        <<"DataStorageMB", Dict(<< <<"Max", Num(5)>>,
        <<"Remaining", Num(4)>> >>)>> >>)) },
    Organization |->
        { RemoteError, Returns(Envelope(<<>>)),
        Returns(Envelope(<< Dict(<< <<"Id", Str("00D1")>>, <<"Name", Str("Acme")>>,
        <<"IsSandbox", Bool(FALSE)>> >>) >>)) } ]

\* the arguments of an invocation, by schema: required ones absent, empty or given
Arguments ==
  [ run_soql_query |-> ArgumentSets([query |-> Values.Query], EmptyFunction),
    run_sosl_search |-> ArgumentSets([search |-> Values.Search], EmptyFunction),
    object_name |-> ArgumentSets([object_name |-> Values.ObjectName], EmptyFunction),
    object_record |->
        ArgumentSets([object_name |-> Values.ObjectName,
        record_id |-> Values.RecordId], EmptyFunction),
    create_record |->
        ArgumentSets([object_name |-> Values.ObjectName, data |-> Values.Data],
        EmptyFunction),
    update_record |->
        ArgumentSets([object_name |-> Values.ObjectName,
        record_id |-> Values.RecordId, data |-> Values.Data],
        EmptyFunction),
    execute |->
        ArgumentSets([action |-> Values.Action],
        [method |-> Values.Method, data |-> Values.Data]),
    restful |->
        ArgumentSets([path |-> Values.Path],
        [method |-> Values.Method, params |-> Values.Params,
        data |-> Values.Data]),
    bulk_create |->
        ArgumentSets([object_name |-> Values.ObjectName, data |-> Values.BulkCreate],
        EmptyFunction),
    bulk_update |->
        ArgumentSets([object_name |-> Values.ObjectName, data |-> Values.BulkUpdate],
        EmptyFunction),
    bulk_delete |->
        ArgumentSets([object_name |-> Values.ObjectName,
        record_ids |-> Values.BulkDelete], EmptyFunction),
    create_custom_field |->
        ArgumentSets([object_name |-> {Str("Account")}, field_name |-> {Str("Region")},
        field_type |-> Values.FieldType, field_label |-> Values.FieldLabel],
        [length |-> {Num(80)}]),
    update_custom_field |->
        ArgumentSets([object_name |-> {Str("Account")}, field_name |-> Values.CustomFieldName],
        [field_label |-> Values.FieldLabel, required |-> {Bool(TRUE)}]),
    set_field_permissions |->
        ArgumentSets([object_name |-> {Str("Account")}, field_name |-> Values.CustomFieldName],
        [permission_set_name |-> Values.PermissionSet]),
    field |->
        ArgumentSets([object_name |-> {Str("Account")},
        field_name |-> Values.CustomFieldName], EmptyFunction),
    get_field_details |->
        ArgumentSets([object_name |-> Values.ObjectName, field_name |-> Values.FieldName],
        EmptyFunction),
    export_data_csv |-> ArgumentSets([query |-> Values.Query], [filename |-> Values.Filename]),
    list_reports |-> ArgumentSets(EmptyFunction, [folder_id |-> Values.FolderId]),
    list_users |->
        ArgumentSets(EmptyFunction, [include_inactive |-> Values.IncludeInactive,
        limit |-> Values.Limit]) ]

Call_run_soql_query ==
  \E arguments \in Arguments.run_soql_query, reply \in Replies.Query :
    Plain("run_soql_query", arguments, run_soql_query(arguments, Connected, reply))

Call_run_sosl_search ==
  \E arguments \in Arguments.run_sosl_search, reply \in Replies.Search :
    Plain("run_sosl_search", arguments, run_sosl_search(arguments, Connected, reply))

\* the describe answers for the object the arguments name
DescribeRepliesFor(arguments) ==
  IF Truthy(ArgGet(arguments, "object_name")) /\ IsStr(ArgGet(arguments, "object_name"))
  THEN DescribeReplies(arguments["object_name"].v)
  ELSE {RemoteError}

\* the get_object_fields branch runs for these arguments, from its first
\* statement to its return or raise: it holds no await, and the adapter call
\* blocks the event loop until the describe round trip has ended
HandleGetObjectFields(arguments) ==
  \E reply \in DescribeRepliesFor(arguments) \cup {Returns(DescribeBroken)} :
    LET got == get_object_fields(arguments, Connected, sobjects_cache, reply)
        name == ArgGet(arguments, "object_name").v
        fetched == got.res.kind = "return" /\ got.res.ops # <<>>
    IN /\ Invocation("get_object_fields", arguments, got.res)
       /\ sobjects_cache' = got.cache
       /\ described' = IF fetched THEN [described EXCEPT ![name] = @ + 1] ELSE described
       /\ first_result' = IF got.res.kind = "return" /\ first_result[name] = ""
                          THEN [first_result EXCEPT ![name] = got.res.text]
                          ELSE first_result
       /\ UNCHANGED written

Call_get_object_fields ==
  \E arguments \in Arguments.object_name :
    HandleGetObjectFields(arguments) /\ UNCHANGED tasks

Call_get_record ==
  \E arguments \in Arguments.object_record, reply \in Replies.Get :
    Plain("get_record", arguments, get_record(arguments, Connected, reply))

Call_create_record ==
  \E arguments \in Arguments.create_record, reply \in Replies.Create :
    Plain("create_record", arguments, create_record(arguments, Connected, reply))

Call_update_record ==
  \E arguments \in Arguments.update_record, reply \in Replies.Status :
    Plain("update_record", arguments, update_record(arguments, Connected, reply))

Call_delete_record ==
  \E arguments \in Arguments.object_record, reply \in Replies.Status :
    Plain("delete_record", arguments, delete_record(arguments, Connected, reply))

Call_tooling_execute ==
  \E arguments \in Arguments.execute, reply \in Replies.Execute :
    Plain("tooling_execute", arguments, tooling_execute(arguments, Connected, reply))

Call_apex_execute ==
  \E arguments \in Arguments.execute, reply \in Replies.Execute :
    Plain("apex_execute", arguments, apex_execute(arguments, Connected, reply))

Call_restful ==
  \E arguments \in Arguments.restful, reply \in Replies.Execute :
    Plain("restful", arguments, restful(arguments, Connected, reply))

Call_list_sobjects ==
  \E reply \in Replies.GlobalDescribe :
    Plain("list_sobjects", EmptyFunction, list_sobjects(EmptyFunction, Connected, reply))

Call_bulk_create_records ==
  \E arguments \in Arguments.bulk_create :
    \E reply \in BulkReplies(ArgGet(arguments, "data")) :
      Plain("bulk_create_records", arguments, bulk_create_records(arguments, Connected, reply))

Call_bulk_update_records ==
  \E arguments \in Arguments.bulk_update :
    \E reply \in BulkReplies(ArgGet(arguments, "data")) :
      Plain("bulk_update_records", arguments, bulk_update_records(arguments, Connected, reply))

Call_bulk_delete_records ==
  \E arguments \in Arguments.bulk_delete :
    \E reply \in BulkReplies(ArgGet(arguments, "record_ids")) :
      Plain("bulk_delete_records", arguments, bulk_delete_records(arguments, Connected, reply))

Call_get_record_types ==
  \E arguments \in Arguments.object_name, reply \in Replies.RecordType :
    Plain("get_record_types", arguments, get_record_types(arguments, Connected, reply))

Call_get_user_permissions ==
  \E arguments \in Arguments.object_name :
    \E reply \in DescribeRepliesFor(arguments) :
      Plain("get_user_permissions", arguments,
            get_user_permissions(arguments, Connected, reply))

Call_create_custom_field ==
  \E arguments \in Arguments.create_custom_field, reply \in Replies.CreateField :
    Plain("create_custom_field", arguments,
          create_custom_field(arguments, Connected, reply))

UpdateFieldScripts ==
  { script \in Replies.FieldId \X Replies.Patch :
      (script[1].raises \/ ~Truthy(RecordsOf(script[1].value))) => script[2] = RemoteError }
Call_update_custom_field ==
  \E arguments \in Arguments.update_custom_field, script \in UpdateFieldScripts :
    Plain("update_custom_field", arguments,
          update_custom_field(arguments, Connected, script[1], script[2]))

\* the answers to the two lookups and the write; an operation that is not
\* reached answers nothing, written here as the remote error
PermissionScripts ==
  { script \in Replies.PermissionSet \X Replies.FieldPermissionId \X Replies.Post :
      /\ (script[1].raises \/ ~Truthy(RecordsOf(script[1].value))) => script[2] = RemoteError
      /\ script[2].raises => script[3] = RemoteError }
Call_set_field_permissions ==
  \E arguments \in Arguments.set_field_permissions, script \in PermissionScripts :
    Plain("set_field_permissions", arguments,
          set_field_permissions(arguments, Connected, script[1], script[2], script[3]))

Call_get_field_permissions ==
  \E arguments \in Arguments.field, reply \in Replies.FieldPermissions :
    Plain("get_field_permissions", arguments,
          get_field_permissions(arguments, Connected, reply))

Call_get_field_details ==
  \E arguments \in Arguments.get_field_details :
    \E reply \in DescribeRepliesFor(arguments) :
      Plain("get_field_details", arguments, get_field_details(arguments, Connected, reply))

Call_export_data_csv ==
  \E arguments \in Arguments.export_data_csv, reply \in Replies.Query :
    LET got == export_data_csv(arguments, Connected, reply)
    IN /\ Invocation("export_data_csv", arguments, got.res)
       /\ written' = got.written
       /\ UNCHANGED <<sobjects_cache, described, first_result, tasks>>

Call_list_reports ==
  \E arguments \in Arguments.list_reports, reports \in Replies.Report, folders \in Replies.Folder :
    Plain("list_reports", arguments, list_reports(arguments, Connected, reports, folders))

Call_list_users ==
  \E arguments \in Arguments.list_users, users \in Replies.User, count \in Replies.Count :
    Plain("list_users", arguments, list_users(arguments, Connected, users, count))

Call_get_org_limits ==
  \E limits \in Replies.Limits, org_info \in Replies.Organization :
    Plain("get_org_limits", EmptyFunction,
          get_org_limits(EmptyFunction, Connected, limits, org_info))

\* a chain that lost the branch of its last tool
BranchesWithoutLimits ==
  { "run_soql_query", "run_sosl_search", "get_object_fields", "get_record",
    "create_record", "update_record", "delete_record", "tooling_execute",
    "apex_execute", "restful", "list_sobjects", "bulk_create_records",
    "bulk_update_records", "bulk_delete_records", "get_record_types",
    "get_user_permissions", "create_custom_field", "update_custom_field",
    "set_field_permissions", "get_field_permissions", "get_field_details",
    "export_data_csv", "list_reports", "list_users" }

\* the names the if/elif chain of handle_call_tool compares name with
Branches ==
  { "run_soql_query", "run_sosl_search", "get_object_fields", "get_record",
    "create_record", "update_record", "delete_record", "tooling_execute",
    "apex_execute", "restful", "list_sobjects", "bulk_create_records",
    "bulk_update_records", "bulk_delete_records", "get_record_types",
    "get_user_permissions", "create_custom_field", "update_custom_field",
    "set_field_permissions", "get_field_permissions", "get_field_details",
    "export_data_csv", "list_reports", "list_users", "get_org_limits" }

\* the names a client sends that fall through the chain to its else: the
\* names it was listed, and one it was not, less the branches
UnknownNames ==
  ({handle_list_tools[i].name : i \in 1..Len(handle_list_tools)} \cup {"run_query"}) \ Branches
Call_unknown_tool ==
  \E name \in UnknownNames :
    Plain(name, EmptyFunction, Raised("ValueError", "Unknown tool: " \o name, <<>>))

Next ==
  \/ connect
  \/ SchemaChange
  \/ Respond
  \/ Call_run_soql_query
  \/ Call_run_sosl_search
  \/ Call_get_object_fields
  \/ Call_get_record
  \/ Call_create_record
  \/ Call_update_record
  \/ Call_delete_record
  \/ Call_tooling_execute
  \/ Call_apex_execute
  \/ Call_restful
  \/ Call_list_sobjects
  \/ Call_bulk_create_records
  \/ Call_bulk_update_records
  \/ Call_bulk_delete_records
  \/ Call_get_record_types
  \/ Call_get_user_permissions
  \/ Call_create_custom_field
  \/ Call_update_custom_field
  \/ Call_set_field_permissions
  \/ Call_get_field_permissions
  \/ Call_get_field_details
  \/ Call_export_data_csv
  \/ Call_list_reports
  \/ Call_list_users
  \/ Call_get_org_limits
  \/ Call_unknown_tool
  \/ Call_list_tools

Spec == Init /\ [][Next]_vars

-----------------------------------------------------------------------------
(* Requests in flight.  server.run reads the requests of the transport and *)
(* starts the handler of each as a task of the one event loop, so several  *)
(* get_object_fields requests can be waiting for their handler at once.    *)

\* how many requests wait for their handler, at most
MaxTasks == 2

\* the transport hands over a get_object_fields request while others may
\* wait; a handler holds the event loop until it ends, so a request is never
\* handed over in the middle of one
Receive ==
  /\ pc = "idle"
  /\ Len(tasks) < MaxTasks
  /\ \E arguments \in Maps({"object_name"}, [object_name |-> Values.ObjectName]) :
       tasks' = Append(tasks, [name |-> "get_object_fields", arguments |-> arguments])
  /\ UNCHANGED <<pc, sf, sobjects_cache, remote, call, outcome, ops, written, described,
                 first_result, connect_result, listing>>

\* the event loop runs the handler of one of the waiting requests
Run_get_object_fields ==
  \E i \in 1..Len(tasks) :
    /\ HandleGetObjectFields(tasks[i].arguments)
    /\ tasks' = SubSeq(tasks, 1, i - 1) \o SubSeq(tasks, i + 1, Len(tasks))

SpecTasks ==
  Init /\ [][connect \/ SchemaChange \/ Respond \/ Receive \/ Run_get_object_fields]_vars

-----------------------------------------------------------------------------
(* The tool registry, as far as the properties below read it.              *)

\* the "required" list of each descriptor handle_list_tools returns
Required ==
  [ run_soql_query |-> {"query"}, run_sosl_search |-> {"search"},
    get_object_fields |-> {"object_name"}, get_record |-> {"object_name", "record_id"},
    create_record |-> {"object_name", "data"},
    update_record |-> {"object_name", "record_id", "data"},
    delete_record |-> {"object_name", "record_id"},
    tooling_execute |-> {"action"}, apex_execute |-> {"action"}, restful |-> {"path"},
    list_sobjects |-> {},
    bulk_create_records |-> {"object_name", "data"},
    bulk_update_records |-> {"object_name", "data"},
    bulk_delete_records |-> {"object_name", "record_ids"},
    get_record_types |-> {"object_name"}, get_user_permissions |-> {"object_name"},
    create_custom_field |-> {"object_name", "field_name", "field_type", "field_label"},
    update_custom_field |-> {"object_name", "field_name"},
    set_field_permissions |-> {"object_name", "field_name"},
    get_field_permissions |-> {"object_name", "field_name"},
    get_field_details |-> {"object_name", "field_name"},
    export_data_csv |-> {"query"},
    list_reports |-> {}, list_users |-> {}, get_org_limits |-> {} ]

ToolNames == DOMAIN Required

-----------------------------------------------------------------------------
(* Properties.  They read the invocation that has just ended: call,        *)
(* outcome, ops and written in the states where pc = "responding".         *)

\* an argument is absent, or an empty string, object or list
IsMissing(arguments, k) ==
  \/ k \notin DOMAIN arguments
  \/ arguments[k] \in {Str(""), Dict(<<>>), List(<<>>)}

SomeRequiredMissing ==
  call.name \in ToolNames /\ \E k \in Required[call.name] : IsMissing(call.arguments, k)

AllRequiredGiven ==
  call.name \in ToolNames /\ \A k \in Required[call.name] : ~IsMissing(call.arguments, k)

Ended(name) == pc = "responding" /\ call.name = name

IsConnectionError ==
  /\ outcome.kind = "raise"
  /\ outcome.exc = "ValueError"
  /\ outcome.text = "Salesforce connection not established."

\* C1: a call of a tool with one of its required arguments absent or empty
\* (empty string, object or list) raises ValueError "Missing ..." and performs
\* no adapter operation, whether the adapter is connected or not.
C1_MissingArgumentRejected ==
  (pc = "responding" /\ SomeRequiredMissing) =>
    /\ outcome.kind = "raise"
    /\ outcome.exc = "ValueError"
    /\ Prefix(outcome.text, 7) = "Missing"
    /\ ops = <<>>

C1_Witness ==
  /\ Ended("update_record")
  /\ Connected
  /\ call.arguments = [object_name |-> Str("Account"), record_id |-> Str("001x"),
                       data |-> Dict(<<>>)]
  /\ outcome.text = "Missing 'object_name', 'record_id', or 'data' argument"

\* C2: a call of any tool with all required arguments given while the adapter
\* is disconnected raises ValueError "Salesforce connection not established."
\* and performs no adapter operation.
C2_DisconnectedRejected ==
  (pc = "responding" /\ AllRequiredGiven /\ ~Connected) =>
    (IsConnectionError /\ ops = <<>>)

\* C3: get_object_fields fetches the describe payload of a name at most once,
\* at the first request that succeeds, attempts no describe for a name it
\* holds, and answers every request for the name with the text of the first.
C3_DescribeOncePerName ==
  /\ \A o \in ObjectNames :
       /\ described[o] <= 1
       /\ (first_result[o] # "") <=> (described[o] = 1)
       /\ (o \in DOMAIN sobjects_cache) <=> (described[o] = 1)
  /\ (Ended("get_object_fields") /\ outcome.kind = "return") =>
       outcome.text = first_result[call.arguments["object_name"].v]
  /\ (Ended("get_object_fields") /\ ops # <<>>) =>
       /\ Len(ops) = 1
       /\ ops[1].op = "describe"
       /\ outcome.kind = "raise" <=> call.arguments["object_name"].v \notin DOMAIN sobjects_cache

\* a later request answered from the cache although the schema has changed
C3_Witness ==
  /\ Ended("get_object_fields")
  /\ outcome.kind = "return"
  /\ ops = <<>>
  /\ call.arguments["object_name"] = Str("Account")
  /\ sobjects_cache["Account"] # FilteredFields(Describes[remote["account"]]["fields"])

\* C4: an entry of sobjects_cache is never removed or replaced: every step
\* keeps every name present with the field list it had.
C4_CachePermanent ==
  [][\A o \in DOMAIN sobjects_cache :
       o \in DOMAIN sobjects_cache' /\ sobjects_cache'[o] = sobjects_cache[o]]_vars

\* both names are cached, one of them with a field list the org no longer has
C4_Witness ==
  /\ pc = "responding"
  /\ DOMAIN sobjects_cache = ObjectNames
  /\ sobjects_cache["Account"] # sobjects_cache["account"]
  /\ sobjects_cache["Account"] # FilteredFields(Describes[remote["account"]]["fields"])

\* C5: run_soql_query with a non-empty query on a connected adapter calls
\* query_all once with the query unchanged and, when that returns, answers
\* "SOQL Query Results (JSON):\n" followed by the indent-2 JSON of the envelope.
C5_SoqlQueryForwarded ==
  (Ended("run_soql_query") /\ Connected /\ AllRequiredGiven) =>
    /\ Len(ops) = 1
    /\ ops[1].op = "query_all"
    /\ ops[1].args = <<call.arguments["query"]>>
    /\ ops[1].kw = <<>>
    /\ ~ops[1].raised =>
         /\ outcome.kind = "return"
         /\ outcome.text = "SOQL Query Results (JSON):\n" \o Dumps(ops[1].result)
         /\ ops[1].result = Envelope(<<>>) =>
              outcome.text = "SOQL Query Results (JSON):\n{\n  \"totalSize\": 0,\n  \"done\": true,\n  \"records\": []\n}"

C5_Witness ==
  /\ Ended("run_soql_query")
  /\ Connected
  /\ Len(ops) = 1
  /\ ops[1].result = Envelope(<<Record("001x", "Acme")>>)
  /\ outcome.kind = "return"

\* C6: update_record and delete_record with valid arguments on a connected
\* adapter call update(record_id, data), respectively delete(record_id), of the
\* named object once and answer "Update <object> Record Result: <status>",
\* respectively "Delete ...", with the status as the adapter returned it.
C6_UpdateDeleteRawStatus ==
  /\ (Ended("update_record") /\ Connected /\ AllRequiredGiven) =>
       /\ Len(ops) = 1
       /\ ops[1].op = "update"
       /\ ops[1].obj = call.arguments["object_name"].v
       /\ ops[1].args = <<call.arguments["record_id"], call.arguments["data"]>>
       /\ ~ops[1].raised =>
            /\ outcome.kind = "return"
            /\ outcome.text = "Update " \o call.arguments["object_name"].v
                              \o " Record Result: " \o ToString(ops[1].result.v)
            /\ (ops[1].result = Num(204) /\ ops[1].obj = "Account") =>
                 outcome.text = "Update Account Record Result: 204"
  /\ (Ended("delete_record") /\ Connected /\ AllRequiredGiven) =>
       /\ Len(ops) = 1
       /\ ops[1].op = "delete"
       /\ ops[1].obj = call.arguments["object_name"].v
       /\ ops[1].args = <<call.arguments["record_id"]>>
       /\ ~ops[1].raised =>
            /\ outcome.kind = "return"
            /\ outcome.text = "Delete " \o call.arguments["object_name"].v
                              \o " Record Result: " \o ToString(ops[1].result.v)

C6_Witness ==
  /\ Ended("update_record")
  /\ outcome.text = "Update Account Record Result: 204"
  /\ Len(ops) = 1

\* C7: bulk_delete_records given a non-empty list of record ids calls the bulk
\* delete once with one {'Id': id} record per id, in the same order, when every
\* item is a string; otherwise it raises and the bulk delete is not called.
C7_BulkDeleteMapping ==
  (/\ Ended("bulk_delete_records")
   /\ Connected
   /\ AllRequiredGiven
   /\ IsList(call.arguments["record_ids"])) =>
    LET ids == call.arguments["record_ids"].v IN
    IF \A i \in 1..Len(ids) : ids[i].t = "str"
    THEN /\ Len(ops) = 1
         /\ ops[1].op = "bulk.delete"
         /\ ops[1].obj = call.arguments["object_name"].v
         /\ Len(ops[1].args) = 1
         /\ ops[1].args[1].t = "list"
         /\ Len(ops[1].args[1].v) = Len(ids)
         /\ \A i \in 1..Len(ids) :
              ops[1].args[1].v[i] = [t |-> "dict", v |-> << <<"Id", ids[i]>> >>]
    ELSE /\ outcome.kind = "raise"
         /\ ops = <<>>

C7_Witness ==
  /\ Ended("bulk_delete_records")
  /\ AllRequiredGiven
  /\ call.arguments["record_ids"] = List(<<Str("001x"), Str("001y")>>)
  /\ Len(ops) = 1
  /\ outcome.kind = "return"

\* a get_field_details call with both arguments given, on a connected adapter,
\* whose describe returned
DetailsLookedUp ==
  /\ Ended("get_field_details")
  /\ Connected
  /\ AllRequiredGiven
  /\ Len(ops) = 1
  /\ ~ops[1].raised

DetailsLabel ==
  "Field Details for " \o call.arguments["object_name"].v \o "."
  \o call.arguments["field_name"].v \o " (JSON):\n"

\* the fields of the payload the describe of the call returned
DescribedFields == ops[1].result["fields"]

\* the positions of the fields whose name is the requested one ignoring case
EqualPositions ==
  {i \in 1..Len(DescribedFields) :
     Lower(DescribedFields[i]["name"].v) = Lower(call.arguments["field_name"].v)}

\* the positions of the fields whose name holds the requested one ignoring case
CandidatePositions ==
  {i \in 1..Len(DescribedFields) :
     Contains(Lower(DescribedFields[i]["name"].v), Lower(call.arguments["field_name"].v))}

\* the k-th smallest member of a set of numbers
Kth(S, k) == CHOOSE i \in S : Cardinality({j \in S : j < i}) = k - 1

\* the names of the first ten candidates, in describe order
FirstCandidates ==
  [k \in 1..(IF Cardinality(CandidatePositions) < 10
             THEN Cardinality(CandidatePositions) ELSE 10) |->
     DescribedFields[Kth(CandidatePositions, k)]["name"]]

MissText ==
  DetailsLabel
  \o Dumps(Dict(<< <<"error", Str("Field '" \o call.arguments["field_name"].v
                                  \o "' not found in object '"
                                  \o call.arguments["object_name"].v \o "'")>>,
                   <<"similar_fields", List(FirstCandidates)>> >>))

\* C8: when no field name matches, similar_fields of the miss payload holds at
\* most 10 names, each a field name of the described object that contains the
\* requested name ignoring case, and they are the first such in describe order.
C8_SimilarFieldsFirstTen ==
  (DetailsLookedUp /\ EqualPositions = {}) =>
    /\ outcome.text = MissText
    /\ Len(FirstCandidates) <= 10
    /\ \A k \in 1..Len(FirstCandidates) :
         \E i \in CandidatePositions : DescribedFields[i]["name"] = FirstCandidates[k]

\* a miss on an object with more than ten candidates
C8_Witness ==
  /\ DetailsLookedUp
  /\ EqualPositions = {}
  /\ Cardinality(CandidatePositions) > 10
  /\ outcome.text = MissText

\* C9: get_field_details answers with the details of the first field, in
\* describe order, whose name is the requested one ignoring case, and with the
\* miss payload exactly when there is none; either way the call returns a text.
C9_FirstMatchOrMiss ==
  DetailsLookedUp =>
    /\ outcome.kind = "return"
    /\ (EqualPositions = {}) <=> (outcome.text = MissText)
    /\ EqualPositions # {} =>
         outcome.text = DetailsLabel \o Dumps(FieldDetails(DescribedFields[Kth(EqualPositions, 1)]))

\* a hit on an object where two field names equal the requested one ignoring case
C9_Witness ==
  /\ DetailsLookedUp
  /\ Cardinality(EqualPositions) = 2
  /\ outcome.kind = "return"
  /\ outcome.text # MissText

\* C10: export_data_csv whose query returns no records answers "No records
\* found for the query. CSV file not created." and writes no csv line.
C10_NoRecordsNoCsv ==
  (/\ Ended("export_data_csv")
   /\ Connected
   /\ AllRequiredGiven
   /\ Len(ops) = 1
   /\ ~ops[1].raised
   /\ Item(ops[1].result, "records") = List(<<>>)) =>
    /\ outcome.kind = "return"
    /\ outcome.text = "No records found for the query. CSV file not created."
    /\ written = <<>>

C10_Witness ==
  /\ Ended("export_data_csv")
  /\ Len(ops) = 1
  /\ ~ops[1].raised
  /\ Item(ops[1].result, "records") = List(<<>>)
  /\ written = <<>>

\* the invocation ended with a validation error of its arguments: a missing
\* required argument, a bulk argument that is no list, a bulk record without
\* 'Id', a record id that is no string, or no update field
IsValidationError ==
  /\ outcome.kind = "raise"
  /\ outcome.exc = "ValueError"
  /\ \/ Prefix(outcome.text, 7) = "Missing"
     \/ Contains(outcome.text, "must be a list")
     \/ Prefix(outcome.text, 4) = "Each"
     \/ outcome.text = "No update fields provided"

\* C11: an invocation that ends with a validation error of its arguments has
\* performed no adapter operation: validation precedes the first operation.
C11_ValidationBeforeAdapter ==
  (pc = "responding" /\ IsValidationError) => ops = <<>>

\* the tools whose branch wraps adapter operations in try/except
SwallowingTools ==
  {"create_custom_field", "update_custom_field", "set_field_permissions",
   "get_field_permissions", "list_reports", "list_users", "get_org_limits"}

\* an adapter operation of the invocation raised
SomeOpRaised == \E i \in 1..Len(ops) : ops[i].raised

\* C12: an invocation of create_custom_field, update_custom_field,
\* set_field_permissions, get_field_permissions, list_reports, list_users or
\* get_org_limits in which an adapter operation raised returns normally with
\* a text that describes the error; nothing is raised to the caller.
C12_SubsetSwallowsErrors ==
  (pc = "responding" /\ call.name \in SwallowingTools /\ SomeOpRaised) =>
    /\ outcome.kind = "return"
    /\ Contains(outcome.text, "Error")

\* C13 as stated: in an invocation of a tool outside that subset, an error
\* raised by the adapter propagates: the invocation raises and answers no text.
C13_OthersPropagate_Stated ==
  (pc = "responding" /\ call.name \in ToolNames \ SwallowingTools /\ SomeOpRaised) =>
    outcome.kind = "raise"

\* the two further tools whose branch catches every exception of its body
AlsoSwallowing == {"get_field_details", "export_data_csv"}

\* C13 amended: in an invocation of a tool outside the subset extended by
\* get_field_details and export_data_csv, an error raised by the adapter
\* propagates as raised by the adapter, and the invocation answers no text.
C13_OthersPropagate ==
  (/\ pc = "responding"
   /\ call.name \in ToolNames \ (SwallowingTools \cup AlsoSwallowing)
   /\ SomeOpRaised) =>
    /\ outcome.kind = "raise"
    /\ outcome.exc = "SalesforceError"
    /\ outcome.text = ops[Len(ops)].result.v

C13_Witness ==
  /\ Ended("get_user_permissions")
  /\ SomeOpRaised
  /\ outcome.kind = "raise"

\* C14: sf_client.sf never goes from set to None: every step from a connected
\* state leads to a connected state, also the steps of invocations in which
\* the adapter raised, and an invocation made while connected with its
\* required arguments given never ends with the connection error.
C14_ConnectionKept ==
  [][/\ Connected => Connected'
     /\ (pc' = "responding" /\ Connected /\ AllRequiredGiven') => ~IsConnectionError']_vars

\* the adapter raised in an invocation and the connection is still set
C14_Witness ==
  /\ pc = "responding"
  /\ Connected
  /\ SomeOpRaised
  /\ outcome.kind = "raise"

\* C15: no retries: an adapter operation that raised is the last operation of
\* its invocation, so it is not invoked again and no other operation follows
\* it, and the invocation ends with the failure surfaced once: raised, or
\* reported in the text it returns.
C15_NoRetries ==
  (pc = "responding" /\ SomeOpRaised) =>
    /\ \A i \in 1..(Len(ops) - 1) : ~ops[i].raised
    /\ ops[Len(ops)].raised
    /\ \/ outcome.kind = "raise" /\ outcome.text = ops[Len(ops)].result.v
       \/ outcome.kind = "return" /\ Contains(outcome.text, ops[Len(ops)].result.v)

\* the second operation of an invocation raised after the first returned
C15_Witness ==
  /\ pc = "responding"
  /\ Len(ops) = 2
  /\ ~ops[1].raised
  /\ ops[2].raised
  /\ outcome.kind = "return"

\* C16: a startup connect() that fails returns False and raises nothing, leaves
\* sf None, and the process goes on to serve; from then on sf stays None:
\* no tool invocation sets it, and the process never leaves the serving states.
C16_FailedConnectStaysDisconnected ==
  [][/\ (pc = "startup" /\ ~Connected') =>
          (connect_result' = "False" /\ sf' = "None" /\ pc' = "idle")
     /\ (pc # "startup" /\ connect_result = "False") =>
          (sf = "None" /\ sf' = "None" /\ connect_result' = "False"
           /\ pc' \in {"idle", "responding"})]_vars

\* after a failed startup connect a tool has been invoked and has ended with
\* the connection error
C16_Witness ==
  /\ connect_result = "False"
  /\ pc = "responding"
  /\ call.name = "list_sobjects"
  /\ IsConnectionError
  /\ sf = "None"

\* the names of the registry, in the order of the source
RegistryOrder ==
  << "run_soql_query", "run_sosl_search", "get_object_fields", "get_record",
     "create_record", "update_record", "delete_record", "tooling_execute",
     "apex_execute", "restful", "list_sobjects", "bulk_create_records",
     "bulk_update_records", "bulk_delete_records", "get_record_types",
     "get_user_permissions", "create_custom_field", "update_custom_field",
     "set_field_permissions", "get_field_permissions", "get_field_details",
     "export_data_csv", "list_reports", "list_users", "get_org_limits" >>

Range(s) == {s[i] : i \in 1..Len(s)}

\* C17: the registry is static: every listing, in whatever state of the
\* connection and of the cache and after whatever invocations it is asked,
\* holds the same descriptors in the same order, each with the required
\* arguments of its tool, and no two descriptors share a name.
C17_RegistryStatic ==
  (pc = "responding" /\ call.name = "tools/list") =>
    /\ [i \in 1..Len(listing) |-> listing[i].name] = RegistryOrder
    /\ \A i, j \in 1..Len(listing) : listing[i].name = listing[j].name => i = j
    /\ \A i \in 1..Len(listing) :
         /\ Range(listing[i].required) = Required[listing[i].name]
         /\ Range(listing[i].required) \subseteq Range(listing[i].properties)

\* a listing served while disconnected
C17_Witness ==
  /\ pc = "responding"
  /\ call.name = "tools/list"
  /\ ~Connected
  /\ Len(listing) = 25

\* the adapter operation of each of the three pass-through tools, with the
\* argument that names its target and the keyword that carries 'data'
PassThrough ==
  [ tooling_execute |-> [op |-> "toolingexecute", target |-> "action", data |-> "data"],
    apex_execute |-> [op |-> "apexecute", target |-> "action", data |-> "data"],
    restful |-> [op |-> "restful", target |-> "path", data |-> "json"] ]

\* the value an operation received for a keyword
Keyword(operation, key) ==
  LET i == CHOOSE j \in 1..Len(operation.kw) : operation.kw[j][1] = key
  IN operation.kw[i][2]

\* the argument as given, or the fallback when the mapping has no such key
GivenOr(k, fallback) ==
  IF k \in DOMAIN call.arguments THEN call.arguments[k] ELSE fallback

\* C18: tooling_execute, apex_execute and restful call their adapter operation
\* exactly once with the action or path as given, with method 'GET' when
\* 'method' is absent, with None for an absent 'data' (and, for restful, an
\* absent 'params'), and with the given values unchanged when they are present.
C18_PassThroughDefaults ==
  (/\ pc = "responding"
   /\ call.name \in DOMAIN PassThrough
   /\ Connected
   /\ AllRequiredGiven) =>
    LET tool == PassThrough[call.name] IN
    /\ Len(ops) = 1
    /\ ops[1].op = tool.op
    /\ ops[1].args = <<call.arguments[tool.target]>>
    /\ Keyword(ops[1], "method") = GivenOr("method", Str("GET"))
    /\ Keyword(ops[1], tool.data) = GivenOr("data", None)
    /\ call.name = "restful" => Keyword(ops[1], "params") = GivenOr("params", None)
    /\ Len(ops[1].kw) = IF call.name = "restful" THEN 3 ELSE 2

\* restful called with the path alone
C18_Witness ==
  /\ Ended("restful")
  /\ Connected
  /\ call.arguments = [path |-> Str("limits")]
  /\ Len(ops) = 1
  /\ Keyword(ops[1], "method") = Str("GET")
  /\ Keyword(ops[1], "params") = None
  /\ Keyword(ops[1], "json") = None

\* C20: a tool invoked with a required argument missing while the adapter is
\* disconnected ends with the argument error, not with the connection error,
\* and no invocation made while disconnected performs an adapter operation:
\* the presence check precedes the connection check, which precedes the
\* first operation.
C20_ArgumentsBeforeConnection ==
  (pc = "responding" /\ ~Connected /\ call.name \in ToolNames) =>
    /\ ops = <<>>
    /\ SomeRequiredMissing =>
         /\ outcome.kind = "raise"
         /\ outcome.exc = "ValueError"
         /\ Prefix(outcome.text, 7) = "Missing"
         /\ ~IsConnectionError

\* get_object_fields without object_name while disconnected
C20_Witness ==
  /\ Ended("get_object_fields")
  /\ ~Connected
  /\ call.arguments = EmptyFunction
  /\ outcome.kind = "raise"
  /\ outcome.text = "Missing 'object_name' argument"

\* C19: invocations are not interleaved: whatever requests wait at once, each
\* handler runs from idle to its end in one step, so the describe round trip
\* of get_object_fields succeeds at most once per object name even when two
\* requests for the same uncached name wait together, and every change of
\* sobjects_cache is made by the one get_object_fields handler that runs in
\* that step, which adds one entry and touches no other.
C19_NoInterleaving ==
  [][/\ \A o \in ObjectNames : described'[o] <= 1
     /\ sobjects_cache' # sobjects_cache =>
          /\ pc = "idle"
          /\ pc' = "responding"
          /\ call'.name = "get_object_fields"
          /\ Len(ops') = 1
          /\ \E o \in ObjectNames :
               /\ o \notin DOMAIN sobjects_cache
               /\ DOMAIN sobjects_cache' = DOMAIN sobjects_cache \cup {o}
               /\ \A k \in DOMAIN sobjects_cache : sobjects_cache'[k] = sobjects_cache[k]
    ]_vars

\* two requests for one uncached name waited together; the handler of the
\* first has just made the describe round trip, the second still waits
C19_Witness ==
  /\ Ended("get_object_fields")
  /\ outcome.kind = "return"
  /\ Len(ops) = 1
  /\ Len(tasks) = 1
  /\ tasks[1].arguments = call.arguments
  /\ described[call.arguments["object_name"].v] = 1

\* a get_object_fields invocation made while connected, with its argument given
FieldsRequested ==
  /\ pc = "idle"
  /\ pc' = "responding"
  /\ call'.name = "get_object_fields"
  /\ Connected
  /\ AllRequiredGiven'

\* C21: sobjects_cache is keyed by the object name exactly as given: a request
\* for a name that is not a key makes its own describe round trip for that
\* name and gets its own entry, whether or not a name that differs only in
\* letter case is a key, and a request for a key is answered with the entry
\* of that very key.
C21_CaseSensitiveKeys ==
  [][FieldsRequested =>
       LET name == call'.arguments["object_name"].v IN
       /\ name \notin DOMAIN sobjects_cache =>
            /\ Len(ops') = 1
            /\ ops'[1].op = "describe"
            /\ ops'[1].obj = name
            /\ outcome'.kind = "return" =>
                 /\ DOMAIN sobjects_cache' = DOMAIN sobjects_cache \cup {name}
                 /\ sobjects_cache'[name] = FilteredFields(ops'[1].result["fields"])
       /\ name \in DOMAIN sobjects_cache =>
            /\ ops' = <<>>
            /\ outcome'.text = name \o " Metadata (JSON):\n" \o Dumps(List(sobjects_cache[name]))
    ]_vars

\* 'account' is described on its own although 'Account' is a key, and its
\* entry differs from the one of 'Account'
C21_Witness ==
  /\ Ended("get_object_fields")
  /\ AllRequiredGiven
  /\ call.arguments["object_name"] = Str("account")
  /\ Len(ops) = 1
  /\ described["Account"] = 1
  /\ described["account"] = 1
  /\ DOMAIN sobjects_cache = {"Account", "account"}
  /\ sobjects_cache["Account"] # sobjects_cache["account"]

\* the attribute names of a stored field descriptor, in their order
KeptAttributes == <<"label", "name", "updateable", "type", "length", "picklistValues">>

\* C22: when get_object_fields misses the cache and answers, the entry it
\* stored holds one descriptor per field of the payload, in the
\* payload's order, and each descriptor holds exactly the six attributes
\* label, name, updateable, type, length and picklistValues of its field.
C22_SixAttributesPerField ==
  [][(FieldsRequested /\ Len(ops') = 1 /\ outcome'.kind = "return") =>
       LET name == call'.arguments["object_name"].v
           fields == ops'[1].result["fields"]
           entry == sobjects_cache'[name] IN
       /\ name \notin DOMAIN sobjects_cache
       /\ Len(entry) = Len(fields)
       /\ \A i \in 1..Len(fields) :
            /\ entry[i].t = "dict"
            /\ Len(entry[i].v) = Len(KeptAttributes)
            /\ \A k \in 1..Len(KeptAttributes) :
                 entry[i].v[k] = <<KeptAttributes[k], fields[i][KeptAttributes[k]]>>
    ]_vars

\* the thirteen-odd fields of the changed schema were stored on a miss
C22_Witness ==
  /\ Ended("get_object_fields")
  /\ AllRequiredGiven
  /\ Len(ops) = 1
  /\ ~ops[1].raised
  /\ ops[1].result = DescribeWide
  /\ Len(sobjects_cache[call.arguments["object_name"].v]) = Len(DescribeWide["fields"])

\* a get_field_details invocation made while connected, with both arguments
DetailsRequested ==
  /\ pc = "idle"
  /\ pc' = "responding"
  /\ call'.name = "get_field_details"
  /\ Connected
  /\ AllRequiredGiven'

\* C23 as stated: get_field_details for an object name whose metadata is
\* already stored answers from the stored metadata, with no describe
C23_DetailsFromCache_Stated ==
  [][(DetailsRequested /\ call'.arguments["object_name"].v \in DOMAIN sobjects_cache) =>
       ops' = <<>>
    ]_vars

\* C23: get_field_details does not use the field-metadata cache: every call
\* made while connected with both arguments performs exactly one describe
\* round trip for the object name, whether or not the metadata of that name
\* was fetched before, and leaves the cache as it was.
C23_DetailsAlwaysDescribe ==
  [][DetailsRequested =>
       /\ Len(ops') = 1
       /\ ops'[1].op = "describe"
       /\ ops'[1].obj = call'.arguments["object_name"].v
       /\ sobjects_cache' = sobjects_cache
    ]_vars

\* the details of a field of 'Account' were described anew although
\* get_object_fields had stored the metadata of 'Account'
C23_Witness ==
  /\ Ended("get_field_details")
  /\ AllRequiredGiven
  /\ call.arguments["object_name"] = Str("Account")
  /\ "Account" \in DOMAIN sobjects_cache
  /\ Len(ops) = 1
  /\ ops[1].op = "describe"
  /\ ~ops[1].raised

\* an object that holds an 'Id' key
HoldsId(record) ==
  record.t = "dict" /\ \E i \in 1..Len(record.v) : record.v[i][1] = "Id"

\* the 'data' argument of the call, None when it was not given
DataGiven == IF "data" \in DOMAIN call.arguments THEN call.arguments["data"] ELSE None

\* C24: bulk_update_records reaches the adapter only when 'data' is a
\* non-empty list whose every element is an object holding 'Id', and then
\* with the whole list in one bulk update; when some element of the list is
\* not an object or lacks 'Id' the call raises a ValueError (the one about
\* each record when the object name is given and the adapter connected)
\* and no bulk update is made, not even for the valid elements.
C24_BulkUpdateAllOrNothing ==
  Ended("bulk_update_records") =>
    /\ ops # <<>> =>
         /\ DataGiven.t = "list"
         /\ DataGiven.v # <<>>
         /\ \A i \in 1..Len(DataGiven.v) : HoldsId(DataGiven.v[i])
         /\ Len(ops) = 1
         /\ ops[1].op = "bulk.update"
         /\ ops[1].args = <<DataGiven>>
    /\ (DataGiven.t = "list" /\ \E i \in 1..Len(DataGiven.v) : ~HoldsId(DataGiven.v[i])) =>
         /\ ops = <<>>
         /\ outcome.kind = "raise"
         /\ outcome.exc = "ValueError"
         /\ (Connected /\ AllRequiredGiven) =>
              outcome.text = "Each record in 'data' must be an object and include an 'Id' field for bulk updates."

\* a list of a valid record and one without 'Id' was refused as a whole
C24_Witness ==
  /\ Ended("bulk_update_records")
  /\ Connected
  /\ AllRequiredGiven
  /\ DataGiven = List(<<IdRecord, NewRecord>>)
  /\ outcome.kind = "raise"
  /\ ops = <<>>

\* the folder_id of the call, None when it was not given
FolderGiven ==
  IF "folder_id" \in DOMAIN call.arguments THEN call.arguments["folder_id"] ELSE None

\* C25: list_reports on a connected adapter restricts the query of the reports
\* to the folder when a folder_id is given (the query sent holds the condition
\* FolderId = '<folder_id>'), and asks for all reports when none is given.
C25_FolderRestrictsReports ==
  (Ended("list_reports") /\ Connected) =>
    /\ ops # <<>>
    /\ ops[1].op = "query"
    /\ IF Truthy(FolderGiven)
       THEN Contains(ops[1].args[1].v, "FolderId = '" \o FolderGiven.v \o "'")
       ELSE ~Contains(ops[1].args[1].v, "FolderId")

\* the records the query of the call returned
RecordsReturned ==
  IF ops # <<>> /\ ~ops[1].raised /\ HasKey(ops[1].result, "records")
  THEN Item(ops[1].result, "records").v
  ELSE <<>>

\* the keys of a record other than 'attributes', in the record's order
KeysKept(record) ==
  SelectSeq([i \in 1..Len(record.v) |-> record.v[i][1]], LAMBDA k : k # "attributes")

\* the report of an export up to its preview
ExportHead ==
  "CSV Export completed successfully!\n\nFilename: "
  \o (IF "filename" \in DOMAIN call.arguments THEN call.arguments["filename"].v ELSE "export.csv")
  \o "\nRecords exported: " \o ToString(Len(RecordsReturned))
  \o "\nFields: " \o JoinWith(KeysKept(RecordsReturned[1]), ", ", 1)
  \o "\n\nCSV Content Preview (first 500 chars):\n"

\* C26: export_data_csv whose query returned at least one record reports the
\* number of records returned and the keys of the first record other than
\* 'attributes', followed by the preview: the whole CSV content when it has
\* at most 500 characters, and its first 500 characters followed by '...'
\* when it has more.
C26_PreviewFirst500 ==
  (Ended("export_data_csv") /\ RecordsReturned # <<>>) =>
    LET content == Concat(written, 1)
        shown == SubSeq(outcome.text, Len(ExportHead) + 1, Len(outcome.text)) IN
    /\ outcome.kind = "return"
    /\ Len(written) = Len(RecordsReturned) + 1
    /\ SubSeq(outcome.text, 1, Len(ExportHead)) = ExportHead
    /\ IF Len(content) > 500
       THEN shown = SubSeq(content, 1, 500) \o "..."
       ELSE shown = content

\* a content of 501 characters was cut to 500 and marked
C26_Witness ==
  /\ Ended("export_data_csv")
  /\ RecordsReturned # <<>>
  /\ Len(Concat(written, 1)) = 501
  /\ Len(outcome.text) = Len(ExportHead) + 503

\* C27: a get_object_fields request for a name that is not in the cache and
\* that ends in a raise, because the describe raised or because the filter
\* hit a field that lacks an attribute, leaves sobjects_cache as it was, so
\* the name is still absent afterwards; and every request for an absent name
\* makes the describe round trip.
C27_FailureLeavesCache ==
  /\ [][(FieldsRequested /\ outcome'.kind = "raise") => sobjects_cache' = sobjects_cache]_vars
  /\ []((Ended("get_object_fields") /\ ops # <<>> /\ outcome.kind = "raise") =>
          call.arguments["object_name"].v \notin DOMAIN sobjects_cache)
  /\ [][(FieldsRequested /\ call'.arguments["object_name"].v \notin DOMAIN sobjects_cache) =>
          (Len(ops') = 1 /\ ops'[1].op = "describe")]_vars

\* the describe returned, the filter raised on the field without
\* 'updateable', and no entry was stored for the name
C27_Witness ==
  /\ Ended("get_object_fields")
  /\ Len(ops) = 1
  /\ ~ops[1].raised
  /\ outcome.kind = "raise"
  /\ outcome.exc = "KeyError"
  /\ outcome.text = "'updateable'"
  /\ sobjects_cache = EmptyFunction

\* C28: sobjects_cache is written by get_object_fields alone: a step that
\* changes the cache is a get_object_fields invocation, the name it was asked
\* for was absent, and the step adds the entry of that name and nothing else;
\* every other tool, get_field_details and get_user_permissions with their
\* describe round trips included, leaves the cache as it was.
C28_SingleCacheWriter ==
  [][sobjects_cache' # sobjects_cache =>
       /\ pc' = "responding"
       /\ call'.name = "get_object_fields"
       /\ LET name == call'.arguments["object_name"].v IN
          /\ name \notin DOMAIN sobjects_cache
          /\ DOMAIN sobjects_cache' = DOMAIN sobjects_cache \cup {name}
          /\ \A o \in DOMAIN sobjects_cache : sobjects_cache'[o] = sobjects_cache[o]
    ]_vars

\* get_user_permissions described 'Account' and the cache, which holds
\* 'account' alone, did not take an entry for it
C28_Witness ==
  /\ Ended("get_user_permissions")
  /\ AllRequiredGiven
  /\ call.arguments["object_name"] = Str("Account")
  /\ Len(ops) = 1
  /\ ops[1].op = "describe"
  /\ ~ops[1].raised
  /\ DOMAIN sobjects_cache = {"account"}

\* the HTTP method an operation was given, "" when it is a plain query
MethodOf(operation) ==
  IF \E i \in 1..Len(operation.kw) : operation.kw[i][1] = "method"
  THEN operation.kw[CHOOSE i \in 1..Len(operation.kw) : operation.kw[i][1] = "method"][2].v
  ELSE ""

\* the positions of the writes among the operations of the call
Writes == {i \in 1..Len(ops) : MethodOf(ops[i]) # ""}

\* the records an operation of the call returned, empty when it raised
Found(i) ==
  IF i <= Len(ops) /\ ~ops[i].raised /\ HasKey(ops[i].result, "records")
  THEN Item(ops[i].result, "records").v
  ELSE <<>>

\* C29: set_field_permissions writes at most once per invocation, and the
\* write is its third operation, after the lookup of the permission set and
\* the lookup of the FieldPermissions record have both returned: nothing is
\* written when the permission set is not found, the record found is
\* PATCHed when the second lookup found one, and otherwise one is POSTed.
C29_OneWriteAfterLookups ==
  Ended("set_field_permissions") =>
    /\ Cardinality(Writes) <= 1
    /\ Writes \subseteq {3}
    /\ Len(ops) <= 3
    /\ \A i \in 1..Len(ops) :
         /\ ops[i].op = "toolingexecute"
         /\ i < 3 => SubSeq(ops[i].args[1].v, 1, 9) = "query/?q="
         /\ i < Len(ops) => ~ops[i].raised
    /\ (ops # <<>> /\ Found(1) = <<>>) => Len(ops) = 1
    /\ (Len(ops) >= 2 /\ ~ops[2].raised) =>
         /\ Len(ops) = 3
         /\ IF Found(2) # <<>>
            THEN /\ MethodOf(ops[3]) = "PATCH"
                 /\ ops[3].args[1].v = "sobjects/FieldPermissions/" \o Item(Found(2)[1], "Id").v
            ELSE /\ MethodOf(ops[3]) = "POST"
                 /\ ops[3].args[1].v = "sobjects/FieldPermissions"

\* the second lookup found a record and it was PATCHed, after both lookups
C29_Witness ==
  /\ Ended("set_field_permissions")
  /\ Len(ops) = 3
  /\ Found(1) # <<>>
  /\ Found(2) # <<>>
  /\ MethodOf(ops[3]) = "PATCH"
  /\ ~ops[3].raised

\* the names handle_list_tools lists
ListedNames == {ToolDescriptors[i].name : i \in 1..Len(ToolDescriptors)}

\* the call ended in the else of the dispatcher
EndedUnknown ==
  /\ outcome.kind = "raise"
  /\ outcome.exc = "ValueError"
  /\ outcome.text = "Unknown tool: " \o call.name

\* C30: the registry and the dispatcher agree: a tools/call ends in
\* ValueError 'Unknown tool: <name>' exactly when its name is not listed by
\* handle_list_tools, so every listed name is handled by a branch; and a call
\* with an unlisted name performs no adapter operation and leaves the
\* connection and the cache as they were.
C30_RegistryMatchesDispatcher ==
  /\ []((pc = "responding" /\ call.name # "tools/list") =>
          /\ EndedUnknown <=> call.name \notin ListedNames
          /\ EndedUnknown => ops = <<>>)
  /\ [][(pc = "idle" /\ pc' = "responding" /\ call'.name \notin ListedNames \cup {"tools/list"}) =>
          (sf' = sf /\ sobjects_cache' = sobjects_cache)]_vars

\* 'run_query' was refused on a connected adapter that holds a cache entry
C30_Witness ==
  /\ Ended("run_query")
  /\ EndedUnknown
  /\ Connected
  /\ sobjects_cache # EmptyFunction

====
